---- MODULE Spec2Model ----
(***************************************************************************)
(* Snapshot extraction engine of code-samples-smells-replication:          *)
(*   - GitHubAPI (scripts/08_temporal_extraction.py): rate-limited REST    *)
(*     client, its pagination helper and the issue/PR listing loop;       *)
(*   - runGraphqlRequest (csDetector-fixed/graphqlAnalysisHelper.py);      *)
(*   - TemporalExtractionPipeline.run / process_repo (08) and the          *)
(*     technical-only pass main() of 08b_run_designite_temporal.py.        *)
(* One behaviour of Spec runs one of these programs, chosen in Init.       *)
(* Time (time.time()) is counted in tenths of a second.                    *)
(***************************************************************************)
EXTENDS Integers, Sequences, FiniteSets, TLC

VARIABLES
    program,        \* which program this behaviour runs
    \* ---- GitHubAPI fields (08:66-74)
    remaining, reset_time, request_count,
    \* ---- the wall clock, in tenths of a second
    clock,
    \* ---- one call of get / runGraphqlRequest
    getPc,          \* "idle" | "send" | "recv" | "ret"
    attempt,        \* loop variable of the retry loop
    max_retries,    \* runGraphqlRequest's parameter
    getResult,      \* [ok |-> BOOLEAN, data |-> Seq(item)]; ok = FALSE is None
    outcome,        \* "pending" | "data" | "none" | "raised"
    \* ---- history of the current call (not program state)
    callReqs,       \* requests issued by the current call
    firstCode,      \* status code of the first answer to the current call, 0 if none
    waitedAt,       \* clock at the end of _check_rate_limit's sleep, -1 if none
                    \* since remaining was last assigned
    callChecks,     \* runs of _check_rate_limit in the current call
    lastResp,       \* the last answer received, with the clock at its handling
    hintWait,       \* last wait derived from a rate-limit-reset hint, -1 if none
    faults,         \* non-nominal firstCode the server has given so far
    \* ---- the caller: get_paginated or _count_issues_or_prs
    callerPc,       \* "loop" | "await" | "done"
    page, max_pages, all_items, item_type, until_date,
    asked,          \* page numbers passed to get, in order
    fetched,        \* what get returned for each of them, in order
    countResult,    \* _count_issues_or_prs's result dict
    \* ---- command line of 08 / 08b
    dry_run, use_designite, use_api, max_years, start_from,
    \* ---- the clones on disk: repo_name -> clone (or NoClone)
    clones,
    \* ---- TemporalExtractionPipeline.run (08) / main (08b)
    runPc,          \* "start" | "loop" | "done" | "aborted"
    repos,          \* 08: the loaded repository list (repo names)
    rows,           \* 08b: the rows of the input table
    run_i,          \* enumerate index i
    all_results, failed,
    processed,      \* 08b's counter of analysed snapshots
    saved_partial, saved_final,   \* the last partial / final table written
    \* ---- process_repo (08) / one turn of main's loop (08b)
    pPc,            \* "idle" | "clone" | "origin" | "year" | "checkout" | "analyse"
                    \* | "restore" | "social" | "final" | "returned" | "raised"
    results, first_commit_date, year_n, snapshot_date, commit_hash, year_result,
    now,            \* datetime.now(), seconds since 1970-01-01 (naive local time)
    \* ---- history (not program state)
    ticks,          \* times the clock has been seen to advance
    pipeFaults,     \* failures of git, the tool or the API so far
    restoreDue,     \* "clean" | "pending": a snapshot checkout was attempted and
                    \* no restore since | "missed": the next snapshot or
                    \* repository was taken up while one was pending
    attempted,      \* project-years that passed the "future" test, in order
    stoppedAt,      \* project-year at which the loop broke on a future date, 0 if none
    resolved,       \* answers of get_last_commit_before to one and the same question
    yearLog,        \* what happened to each attempted project-year of this repository
    visited,        \* indexes of the repositories run has handed to process_repo
    gitCheckouts    \* "git checkout" commands issued by the current process_repo

clientVars == <<remaining, reset_time, request_count, clock, getPc, attempt,
                max_retries, getResult, outcome, callReqs, firstCode, waitedAt,
                callChecks, lastResp, hintWait, faults>>
\* the client's state apart from its request counter
clientRest == <<remaining, reset_time, clock, getPc, attempt,
                max_retries, getResult, outcome, callReqs, firstCode, waitedAt,
                callChecks, lastResp, hintWait, faults>>
callerVars == <<callerPc, page, max_pages, all_items, item_type, until_date,
                asked, fetched, countResult>>
argVars == <<dry_run, use_designite, use_api, max_years, start_from>>
runVars == <<runPc, repos, rows, run_i, all_results, failed, processed,
             saved_partial, saved_final>>
repoVars == <<pPc, results, first_commit_date, year_n, snapshot_date, commit_hash,
              year_result, now>>
histVars == <<ticks, pipeFaults, restoreDue, attempted, stoppedAt>>
auditVars == <<resolved, yearLog, visited, gitCheckouts>>
pipeVars == <<argVars, clones, runVars, repoVars, histVars, auditVars>>
vars == <<program, clientVars, callerVars, pipeVars>>

----------------------------------------------------------------------------
\* Program constants
LOW_WATER == 50
RATE_MARGIN == 5
DEFAULT_REMAINING == 5000
GET_ATTEMPTS == 3
RETRY_STEP == 5
REQUEST_DELAY == 8
PER_PAGE == 100
COUNT_MAX_PAGES == 20
GQL_MIN_WAIT == 10
GQL_MAX_WAIT == 300

\* Bounds of the model
MaxFaults == 1
MaxGetFaults == 3
ResetAhead == 3600
MaxPagesArg == 2
MaxRetriesArg == 3
ShortPage == 2

Sec(s) == 10 * s
Max(a, b) == IF a >= b THEN a ELSE b
Min(a, b) == IF a <= b THEN a ELSE b
RECURSIVE Pow2(_)
Pow2(n) == IF n = 0 THEN 1 ELSE 2 * Pow2(n - 1)

None == [ok |-> FALSE, data |-> <<>>]
Some(d) == [ok |-> TRUE, data |-> d]
NoResp == [kind |-> "none", code |-> 0, remaining |-> 0, reset |-> 0, at |-> 0]

----------------------------------------------------------------------------
\* The remote API, as the clients see it.

\* Item k of page p of the issues listing (sort=created, direction=asc):
\* creation dates never decrease along the listing; pull requests and issues
\* are interleaved.
Item(p, k) == [id |-> (p - 1) * PER_PAGE + k,
               created_at |-> 2 * p + (IF 2 * k > PER_PAGE THEN 1 ELSE 0),
               pull_request |-> (k % 2 = 1),
               comments |-> k % 3]
PageData(p, n) == [k \in 1..n |-> Item(p, k)]
PageLens == {0, ShortPage, PER_PAGE}

\* X-RateLimit-Remaining / X-RateLimit-Reset of an answer received at clock c;
\* a missing header reads as its default (08:101-102).
Headers(c) == {<<DEFAULT_REMAINING, 0>>,
               <<LOW_WATER, (c \div 10) + ResetAhead>>,
               <<LOW_WATER - 1, (c \div 10) + ResetAhead>>}
ErrorCodes == {403, 404, 422, 429, 500, 503}

\* An answer: a 200 whose body parses ("ok"), a 200 whose body cannot be
\* read or parsed ("badbody"), an HTTP error ("http"; hint says whether it
\* carries X-RateLimit-Reset), or no answer at all ("error").
RestAnswers(c) ==
    {[kind |-> "ok", code |-> 200, remaining |-> h[1], reset |-> h[2],
      hint |-> (h[2] # 0), n |-> n] : h \in Headers(c), n \in PageLens}
    \cup {[kind |-> "badbody", code |-> 200, remaining |-> h[1], reset |-> h[2],
           hint |-> (h[2] # 0), n |-> 0] : h \in Headers(c)}
    \cup {[kind |-> "http", code |-> e, remaining |-> 0, reset |-> 0,
           hint |-> FALSE, n |-> 0] : e \in ErrorCodes}
    \cup {[kind |-> "http", code |-> 403, remaining |-> 0,
           reset |-> (c \div 10) + ResetAhead, hint |-> TRUE, n |-> 0]}
    \cup {[kind |-> "error", code |-> 0, remaining |-> 0, reset |-> 0,
           hint |-> FALSE, n |-> 0]}
Nominal(r) == r.kind = "ok" /\ r.remaining >= LOW_WATER

----------------------------------------------------------------------------
\* GitHubAPI (08_temporal_extraction.py)

\* "e.code == 403" and "e.code == 404 ... e.code == 422" of the except branch
Forbidden(code) == code = 403
\* A faulty variant, for comparison: 422 is handled like any other HTTP error
AbsentOnly404(code) == code = 404
Absent(code) == code = 404 \/ code = 422
NeedsWait(rem) == rem < LOW_WATER
\* wait = max(0, reset - time.time()) + 5, in tenths of a second
ResetWait(reset, c) == Max(0, Sec(reset) - c) + Sec(RATE_MARGIN)
RetrySleep(a) == Sec(RETRY_STEP * (a + 1))
\* A faulty variant, for comparison: the retry loop runs one turn more
InRangeMore(a) == a <= GET_ATTEMPTS
\* "for attempt in range(3)"
InRange(a) == a < GET_ATTEMPTS
\* "if attempt < 2: ... else: return None"
LastAttempt(a) == ~(a < 2)

\* get(): _check_rate_limit, then the retry loop starts at attempt 0.
GetEnter ==
    /\ getPc' = "send"
    /\ attempt' = 0
    /\ clock' = IF NeedsWait(remaining)
                THEN clock + ResetWait(reset_time, clock) ELSE clock
    /\ waitedAt' = IF NeedsWait(remaining) THEN clock' ELSE waitedAt
    /\ callChecks' = 1
    /\ callReqs' = 0
    /\ firstCode' = 0
    /\ outcome' = "pending"
    /\ getResult' = None
    /\ lastResp' = NoResp
    /\ UNCHANGED <<remaining, reset_time, request_count, max_retries, hintWait, faults>>

\* How many non-nominal answers the server gives in one behaviour: enough to
\* exhaust one call's attempts where the caller makes few calls.
FaultBudget == IF program = "get_paginated" THEN MaxGetFaults ELSE MaxFaults

IsRest == program \in {"get_paginated", "count_issues"}

\* urllib.request.urlopen(req, timeout=30): the request goes out.
GetSend ==
    /\ IsRest /\ getPc = "send"
    /\ getPc' = "recv"
    /\ callReqs' = callReqs + 1
    /\ UNCHANGED <<program, remaining, reset_time, request_count, clock, attempt,
                   max_retries, getResult, outcome, firstCode, waitedAt, lastResp,
                   hintWait, faults, callChecks, callerVars, pipeVars>>

\* The next turn of "for attempt in range(3)" after sleeping w, or the
\* "return None" after the loop.
NextAttempt(w) ==
    /\ clock' = clock + w
    /\ IF InRange(attempt + 1)
       THEN /\ getPc' = "send" /\ attempt' = attempt + 1
            /\ UNCHANGED <<getResult, outcome>>
       ELSE /\ getPc' = "ret" /\ getResult' = None /\ outcome' = "none"
            /\ UNCHANGED attempt
ReturnNone ==
    /\ getPc' = "ret" /\ getResult' = None /\ outcome' = "none"
    /\ UNCHANGED <<attempt, clock>>
\* except branches of 08:120-131
RetryOrGiveUp ==
    IF LastAttempt(attempt)
    THEN ReturnNone
    ELSE NextAttempt(RetrySleep(attempt))

GetRecv ==
    /\ IsRest /\ getPc = "recv"
    /\ \E r \in RestAnswers(clock) :
        /\ Nominal(r) \/ faults < FaultBudget
        /\ faults' = IF Nominal(r) THEN faults ELSE faults + 1
        /\ firstCode' = IF callReqs = 1 THEN r.code ELSE firstCode
        /\ lastResp' = [kind |-> r.kind, code |-> r.code, remaining |-> r.remaining,
                        reset |-> r.reset, at |-> clock]
        /\ CASE r.kind = "ok" ->
                  /\ remaining' = r.remaining /\ reset_time' = r.reset
                  /\ request_count' = request_count + 1
                  /\ waitedAt' = -1
                  /\ clock' = clock + REQUEST_DELAY
                  /\ getResult' = Some(PageData(page, r.n))
                  /\ getPc' = "ret" /\ outcome' = "data"
                  /\ UNCHANGED <<attempt, hintWait>>
             [] r.kind = "badbody" ->
                  /\ remaining' = r.remaining /\ reset_time' = r.reset
                  /\ request_count' = request_count + 1
                  /\ waitedAt' = -1
                  /\ RetryOrGiveUp
                  /\ UNCHANGED hintWait
             [] r.kind = "http" /\ Forbidden(r.code) ->
                  /\ NextAttempt(ResetWait(r.reset, clock))
                  /\ hintWait' = IF r.hint THEN ResetWait(r.reset, clock) ELSE hintWait
                  /\ UNCHANGED <<remaining, reset_time, request_count, waitedAt>>
             [] r.kind = "http" /\ Absent(r.code) ->
                  /\ ReturnNone
                  /\ UNCHANGED <<remaining, reset_time, request_count, waitedAt, hintWait>>
             [] OTHER ->
                  /\ RetryOrGiveUp
                  /\ UNCHANGED <<remaining, reset_time, request_count, waitedAt, hintWait>>
    /\ UNCHANGED <<program, max_retries, callReqs, callChecks, callerVars, pipeVars>>

----------------------------------------------------------------------------
\* GitHubAPI.get_paginated (08:134-154)

NextPage(p) == p + 1
\* A faulty variant, for comparison: a page is put in front of the items collected so far
ExtendFront(items, data) == data \o items
Extend(items, data) == items \o data
\* "if data is None or len(data) == 0: break"
NoMore(res) == ~res.ok \/ Len(res.data) = 0
\* "if len(data) < 100: break"
ShortOf(data) == Len(data) < PER_PAGE

\* "while page <= max_pages": params["page"] = page; data = self.get(url, params)
PaginatedLoop ==
    /\ program = "get_paginated" /\ callerPc = "loop"
    /\ IF page <= max_pages
       THEN /\ GetEnter
            /\ callerPc' = "await"
            /\ asked' = Append(asked, page)
       ELSE /\ callerPc' = "done"
            /\ UNCHANGED <<clientVars, asked>>
    /\ UNCHANGED <<program, page, max_pages, all_items, item_type, until_date,
                   fetched, countResult, pipeVars>>

PaginatedResume ==
    /\ program = "get_paginated" /\ callerPc = "await" /\ getPc = "ret"
    /\ getPc' = "idle"
    /\ fetched' = Append(fetched, getResult)
    /\ IF NoMore(getResult)
       THEN /\ callerPc' = "done" /\ UNCHANGED <<all_items, page>>
       ELSE /\ all_items' = Extend(all_items, getResult.data)
            /\ IF ShortOf(getResult.data)
               THEN callerPc' = "done" /\ UNCHANGED page
               ELSE callerPc' = "loop" /\ page' = NextPage(page)
    /\ UNCHANGED <<program, remaining, reset_time, request_count, clock, attempt,
                   max_retries, getResult, outcome, callReqs, firstCode, waitedAt,
                   callChecks, lastResp, hintWait, faults, max_pages, item_type,
                   until_date, asked, countResult, pipeVars>>

----------------------------------------------------------------------------
\* SocialMetricsExtractor._count_issues_or_prs (08:352-406)

\* The "for item in data" loop: items are taken up to the first one created
\* after until_date; of those, the ones of the wanted type are kept.
Passed(data, until) == {k \in 1..Len(data) : data[k].created_at > until}
FirstPassed(data, until) ==
    CHOOSE k \in Passed(data, until) : \A j \in Passed(data, until) : k <= j
Wanted(item, type) ==
    \/ (type = "pr" /\ item.pull_request)
    \/ (type = "issue" /\ ~item.pull_request)
KeptOf(data, type, until) ==
    LET upto == IF Passed(data, until) = {} THEN Len(data)
                ELSE FirstPassed(data, until) - 1
    IN  SelectSeq(SubSeq(data, 1, upto), LAMBDA item : Wanted(item, type))

CountLoop ==
    /\ program = "count_issues" /\ callerPc = "loop"
    /\ IF page <= max_pages
       THEN /\ GetEnter
            /\ callerPc' = "await"
            /\ asked' = Append(asked, page)
            /\ UNCHANGED countResult
       ELSE /\ callerPc' = "done"
            /\ countResult' = [count |-> Len(all_items)]
            /\ UNCHANGED <<clientVars, asked>>
    /\ UNCHANGED <<program, page, max_pages, all_items, item_type, until_date, fetched, pipeVars>>

CountResume ==
    /\ program = "count_issues" /\ callerPc = "await" /\ getPc = "ret"
    /\ getPc' = "idle"
    /\ fetched' = Append(fetched, getResult)
    /\ IF NoMore(getResult)
       THEN /\ callerPc' = "done"
            /\ countResult' = [count |-> Len(all_items)]
            /\ UNCHANGED <<all_items, page>>
       ELSE LET data == getResult.data
                \* "page = max_pages + 1  # Sair do while" inside the for loop
                p1 == IF Passed(data, until_date) # {} THEN max_pages + 1 ELSE page
            IN  /\ all_items' = Extend(all_items, KeptOf(data, item_type, until_date))
                /\ IF ShortOf(data)
                   THEN /\ callerPc' = "done"
                        /\ page' = p1
                        /\ countResult' = [count |-> Len(all_items')]
                   ELSE /\ callerPc' = "loop"
                        /\ page' = NextPage(p1)
                        /\ UNCHANGED countResult
    /\ UNCHANGED <<program, remaining, reset_time, request_count, clock, attempt,
                   max_retries, getResult, outcome, callReqs, firstCode, waitedAt,
                   callChecks, lastResp, hintWait, faults, max_pages, item_type,
                   until_date, asked, pipeVars>>

----------------------------------------------------------------------------
\* runGraphqlRequest (graphqlAnalysis/graphqlAnalysisHelper.py:12-58)

\* Answers to the POST at clock c. "json" is the body of a 200: with "data",
\* with "errors" only, with neither, or not JSON at all. reset is the value
\* of X-RateLimit-Reset (epoch seconds) when hint is TRUE.
GqlHints(c) == {(c \div 10) - 5, (c \div 10) + 60, (c \div 10) + ResetAhead}
GqlAnswers(c) ==
    {[kind |-> "error", code |-> 0, json |-> "", hint |-> FALSE, reset |-> 0]}
    \cup {[kind |-> "http", code |-> 200, json |-> j, hint |-> FALSE, reset |-> 0] :
            j \in {"data", "errors", "neither", "invalid"}}
    \cup {[kind |-> "http", code |-> e, json |-> "", hint |-> FALSE, reset |-> 0] :
            e \in {403, 429, 500, 502, 503}}
    \cup {[kind |-> "http", code |-> e, json |-> "", hint |-> TRUE, reset |-> h] :
            e \in {403, 429}, h \in GqlHints(c)}

Retryable(code) == code \in {403, 429, 502, 503}
RateLimited(code) == code \in {403, 429}
\* wait_time = max(int(reset_time) - int(time.time()), 10); min(wait_time, 300)
HintedWait(reset, c) == Min(Max(reset - (c \div 10), GQL_MIN_WAIT), GQL_MAX_WAIT)
\* wait_time = 2 ** (attempt + 2)
ServerWait(a) == Pow2(a + 2)
\* time.sleep(2 ** attempt)
ErrorWait(a) == Pow2(a)
MoreAttempts(a, n) == a + 1 < n

\* "for attempt in range(max_retries)": sleep 1..4 s, then post the query.
GqlSend ==
    /\ program = "graphql" /\ getPc = "send"
    /\ \E sleepTime \in 1..4 : clock' = clock + Sec(sleepTime)
    /\ getPc' = "recv"
    /\ callReqs' = callReqs + 1
    /\ UNCHANGED <<program, remaining, reset_time, request_count, attempt,
                   max_retries, getResult, outcome, firstCode, waitedAt, callChecks,
                   lastResp, hintWait, faults, callerVars, pipeVars>>

\* "continue" after sleeping w seconds; after the last turn of the loop the
\* function raises "Query failed after {max_retries} retries".
GqlContinue(w) ==
    /\ clock' = clock + Sec(w)
    /\ IF MoreAttempts(attempt, max_retries)
       THEN /\ getPc' = "send" /\ attempt' = attempt + 1 /\ UNCHANGED outcome
       ELSE /\ getPc' = "ret" /\ outcome' = "raised" /\ UNCHANGED attempt
GqlRaise ==
    /\ getPc' = "ret" /\ outcome' = "raised"
    /\ UNCHANGED <<attempt, clock>>

GqlRecv ==
    /\ program = "graphql" /\ getPc = "recv"
    /\ \E r \in GqlAnswers(clock) :
        /\ firstCode' = IF callReqs = 1 THEN r.code ELSE firstCode
        /\ lastResp' = [kind |-> IF r.code = 200 THEN r.json ELSE r.kind,
                        code |-> r.code, remaining |-> 0, reset |-> 0, at |-> 0]
        /\ CASE r.kind = "error" ->
                  GqlContinue(ErrorWait(attempt)) /\ UNCHANGED hintWait
             [] r.code = 200 /\ r.json = "data" ->
                  /\ getPc' = "ret" /\ outcome' = "data"
                  /\ UNCHANGED <<attempt, clock, hintWait>>
             [] r.code = 200 /\ r.json = "errors" ->
                  GqlContinue(ErrorWait(attempt)) /\ UNCHANGED hintWait
             [] r.kind = "http" /\ Retryable(r.code) ->
                  IF RateLimited(r.code) /\ r.hint
                  THEN /\ GqlContinue(HintedWait(r.reset, clock))
                       /\ hintWait' = Sec(HintedWait(r.reset, clock))
                  ELSE GqlContinue(ServerWait(attempt)) /\ UNCHANGED hintWait
             [] OTHER ->
                  GqlRaise /\ UNCHANGED hintWait
    /\ UNCHANGED <<program, remaining, reset_time, request_count, max_retries,
                   getResult, callReqs, waitedAt, callChecks, faults, callerVars, pipeVars>>

----------------------------------------------------------------------------
UntilDates == {5, 2 * COUNT_MAX_PAGES + 2}

\* the pipeline is not running
PipelineIdle ==
    /\ dry_run = FALSE /\ use_designite = FALSE /\ use_api = FALSE
    /\ max_years = 0 /\ start_from = 0
    /\ clones = <<>>
    /\ runPc = "done" /\ repos = <<>> /\ rows = <<>> /\ run_i = 0
    /\ all_results = <<>> /\ failed = 0 /\ processed = 0
    /\ saved_partial = [written |-> FALSE, table |-> <<>>]
    /\ saved_final = [written |-> FALSE, table |-> <<>>]
    /\ pPc = "idle" /\ results = <<>> /\ first_commit_date = -1 /\ year_n = 0
    /\ snapshot_date = -1 /\ commit_hash = 0 /\ year_result = <<>>
    /\ now = 0
    /\ ticks = 0 /\ pipeFaults = 0 /\ restoreDue = "clean"
    /\ attempted = <<>> /\ stoppedAt = 0
    /\ resolved = <<>> /\ yearLog = <<>> /\ visited = <<>> /\ gitCheckouts = 0

\* GitHubAPI.__init__ and the locals of a call not yet made
NewClient ==
    /\ remaining = DEFAULT_REMAINING /\ reset_time = 0 /\ request_count = 0
    /\ clock = 0
    /\ attempt = 0
    /\ getResult = None /\ outcome = "pending"
    /\ callReqs = 0 /\ firstCode = 0 /\ waitedAt = -1 /\ callChecks = 0
    /\ lastResp = NoResp /\ hintWait = -1 /\ faults = 0
    /\ page = 1 /\ all_items = <<>> /\ asked = <<>> /\ fetched = <<>>
    /\ countResult = [count |-> 0]

InitClient == NewClient /\ PipelineIdle

InitPaginated ==
    /\ program = "get_paginated" /\ InitClient
    /\ getPc = "idle" /\ callerPc = "loop"
    /\ max_pages \in 1..MaxPagesArg
    /\ max_retries = 0 /\ item_type = "" /\ until_date = 0

InitCount ==
    /\ program = "count_issues" /\ InitClient
    /\ getPc = "idle" /\ callerPc = "loop"
    /\ max_pages = COUNT_MAX_PAGES
    /\ item_type \in {"pr", "issue"} /\ until_date \in UntilDates
    /\ max_retries = 0

InitGraphql ==
    /\ program = "graphql" /\ InitClient
    /\ getPc = "send" /\ callerPc = "done"
    /\ max_retries \in 1..MaxRetriesArg
    /\ max_pages = 0 /\ item_type = "" /\ until_date = 0

InitClients == InitPaginated \/ InitCount \/ InitGraphql

NextClients ==
    \/ PaginatedLoop \/ PaginatedResume
    \/ CountLoop \/ CountResume
    \/ GetSend \/ GetRecv
    \/ GqlSend \/ GqlRecv

SpecClients == InitClients /\ [][NextClients]_vars

----------------------------------------------------------------------------
\* Dates. A datetime is a number of seconds since 1970-01-01T00:00:00 (naive
\* local time, as datetime.now() and the parsed commit dates are); a
\* formatted date ("%Y-%m-%d") is the triple <<year, month, day>>.
DAYS_PER_YEAR == 365
MAX_PROJECT_YEARS == 5
DAY == 86400

\* Days since 1970-01-01 of the civil date y-m-d (proleptic Gregorian).
DaysFromCivil(y, m, d) ==
    LET yy  == IF m <= 2 THEN y - 1 ELSE y
        era == yy \div 400
        yoe == yy - era * 400
        mp  == IF m > 2 THEN m - 3 ELSE m + 9
        doy == (153 * mp + 2) \div 5 + d - 1
        doe == yoe * 365 + yoe \div 4 - yoe \div 100 + doy
    IN  era * 146097 + doe - 719468
\* The civil date of day number z.
CivilFromDays(z) ==
    LET zz  == z + 719468
        era == zz \div 146097
        doe == zz - era * 146097
        yoe == (doe - doe \div 1460 + doe \div 36524 - doe \div 146096) \div 365
        doy == doe - (365 * yoe + yoe \div 4 - yoe \div 100)
        mp  == (5 * doy + 2) \div 153
        d   == doy - (153 * mp + 2) \div 5 + 1
        m   == IF mp < 10 THEN mp + 3 ELSE mp - 9
        y   == yoe + era * 400 + (IF m <= 2 THEN 1 ELSE 0)
    IN  <<y, m, d>>
DateTime(y, m, d, h) == DaysFromCivil(y, m, d) * DAY + h * 3600
\* strftime("%Y-%m-%d")
FormatDate(t) == CivilFromDays(t \div DAY)
\* A faulty variant, for comparison: a project year is counted as 366 days
SnapshotDateLeap(first, n) == first + n * (DAYS_PER_YEAR + 1) * DAY
\* first_commit_date + timedelta(days=year_n * DAYS_PER_YEAR)
SnapshotDate(first, n) == first + n * DAYS_PER_YEAR * DAY
\* A faulty variant, for comparison: the boundary is the start of the day
StartOfDay(t) == (t \div DAY) * DAY
\* strftime("%Y-%m-%dT23:59:59"), read back by git as a point in time
EndOfDay(t) == (t \div DAY) * DAY + (DAY - 1)
\* A faulty variant, for comparison: the future test lets the first future year through
IsFutureLate(snap, t) == snap > t + DAYS_PER_YEAR * DAY
\* "if snapshot_date > datetime.now(): break"
IsFuture(snap, t) == snap > t

NoneT == -1
NoCommit == 0

----------------------------------------------------------------------------
\* Git. A clone has a linear history commits[1..n] (oldest first; a commit's
\* identifier is its index), the branches that "git checkout <name>" can
\* resolve with their tips, the remote's default branch, and HEAD.
NoClone == [exists |-> FALSE]
Commit(t, author, tz) == [date |-> t, author |-> author, tz |-> tz]
FreshClone(w) ==
    [exists |-> TRUE, commits |-> w.commits, branches |-> w.branches,
     default |-> w.default,
     issues |-> w.issues,
     head |-> [ref |-> w.default, at |-> Len(w.commits)]]
OnDefaultBranch(cl) == cl.head.ref = cl.default

\* The commits "git log" walks: those reachable from HEAD, newest first.
Reachable(cl) == 1..cl.head.at
Newest(S) == CHOOSE k \in S : \A j \in S : j <= k

\* git log --reverse --format=%aI --max-count=1: the commit limit is applied
\* before the output is reversed, so the one commit printed is the newest
\* one reachable from HEAD. None when git fails or there is no commit.
get_first_commit_date(cl, git_ok) ==
    IF ~git_ok \/ Reachable(cl) = {} THEN NoneT
    ELSE cl.commits[Newest(Reachable(cl))].date

\* A faulty variant, for comparison: a failed run answers with the oldest
\* commit before the boundary
LastCommitFlaky(cl, before_date, git_ok) ==
    LET older == {k \in Reachable(cl) : cl.commits[k].date <= EndOfDay(before_date)}
    IN  IF older = {} THEN NoCommit
        ELSE IF git_ok THEN Newest(older)
        ELSE CHOOSE k \in older : \A j \in older : k <= j
\* git log --before=<date>T23:59:59 --format=%H --max-count=1
get_last_commit_before(cl, before_date, git_ok) ==
    LET older == {k \in Reachable(cl) : cl.commits[k].date <= EndOfDay(before_date)}
    IN  IF ~git_ok \/ older = {} THEN NoCommit ELSE Newest(older)

\* git rev-list --count --before=<date>T23:59:59 HEAD
get_commit_count_until(cl, until) ==
    Cardinality({k \in Reachable(cl) : cl.commits[k].date <= EndOfDay(until)})

\* git checkout <commit> --force
\* A faulty variant, for comparison: the tree ends one commit before the one asked for
CheckoutParent(cl, k) ==
    [cl EXCEPT !.head = [ref |-> "detached", at |-> IF k > 1 THEN k - 1 ELSE k]]
checkout(cl, k) == [cl EXCEPT !.head = [ref |-> "detached", at |-> k]]

\* git checkout <name> --force for each candidate in turn, stopping at the
\* first that succeeds: a branch name succeeds when the clone can resolve
\* it, "HEAD" always succeeds and leaves HEAD where it is.
RECURSIVE TryBranches(_, _)
TryBranches(cl, names) ==
    IF names = <<>> THEN [ok |-> FALSE, clone |-> cl]
    ELSE IF Head(names) = "HEAD" THEN [ok |-> TRUE, clone |-> cl]
    ELSE IF Head(names) \in DOMAIN cl.branches
         THEN [ok |-> TRUE,
               clone |-> [cl EXCEPT !.head = [ref |-> Head(names),
                                              at |-> cl.branches[Head(names)]]]]
    ELSE TryBranches(cl, Tail(names))
\* GitHelper.checkout_default_branch (08): for branch in ["main", "master"]
Candidates08 == <<"main", "master">>
\* checkout_default (08b): for branch in ["main", "master", "HEAD"]
Candidates08b == <<"main", "master", "HEAD">>
checkout_default_branch(cl) == TryBranches(cl, Candidates08).clone
checkout_default(cl) == TryBranches(cl, Candidates08b).clone

----------------------------------------------------------------------------
\* Python dicts are functions from keys to values.
Empty == [k \in {} |-> 0]
\* d.update(e): the keys of both, e's value where both have the key
Update(d, e) == e @@ d

\* The Designite output for the working tree at commit k: the smell column
\* of designCodeSmells.csv and of implementationCodeSmells.csv, row by row.
DesignRows(k) ==
    IF k % 2 = 1 THEN <<"Unutilized Abstraction", "Feature Envy", "Unutilized Abstraction">>
    ELSE <<"Feature Envy">>
ImplRows(k) == IF k % 2 = 1 THEN <<"Long Method">> ELSE <<"Magic Number", "Long Method">>
\* k.replace(" ", "_")
SafeKey(n) ==
    CASE n = "Unutilized Abstraction" -> "Unutilized_Abstraction"
      [] n = "Feature Envy" -> "Feature_Envy"
      [] n = "Long Method" -> "Long_Method"
      [] n = "Magic Number" -> "Magic_Number"
      [] OTHER -> n
Count(rws, n) == Cardinality({i \in 1..Len(rws) : rws[i] = n})
\* the keys of smell_counts, in insertion order
RECURSIVE Types(_)
Types(rws) ==
    IF rws = <<>> THEN <<>>
    ELSE LET front == SubSeq(rws, 1, Len(rws) - 1)
             last == rws[Len(rws)]
         IN  IF Count(front, last) > 0 THEN Types(front)
             ELSE Append(Types(front), last)
\* for k, v in smell_counts.items(): smells[prefix + safe_key] = v
RECURSIVE PerType(_, _, _, _)
PerType(smells, prefix, rws, types) ==
    IF types = <<>> THEN smells
    ELSE PerType(Update(smells, (prefix \o SafeKey(Head(types))) :> Count(rws, Head(types))),
                 prefix, rws, Tail(types))
\* DesigniteRunner._parse_results / the parsing half of run_designite
ParseResults(design, impl) ==
    LET s0 == [total_design_smells |-> Len(design), total_impl_smells |-> Len(impl),
               total_code_smells |-> Len(design) + Len(impl)]
        s1 == PerType(s0, "design_", design, Types(design))
    IN  PerType(s1, "impl_", impl, Types(impl))

----------------------------------------------------------------------------
\* The remote repositories a run can meet: history (oldest first), branches
\* with their tips, default branch, and the tracker's issues and pull
\* requests (day of creation, oldest first).
Issue(y, m, d, pr) == [created |-> DaysFromCivil(y, m, d), is_pr |-> pr]
WorldSingle ==
    [commits |-> <<Commit(DateTime(2019, 1, 1, 10), "ann", "+01:00")>>,
     branches |-> ("main" :> 1), default |-> "main", issues |-> <<>>]
WorldTwo ==
    [commits |-> <<Commit(DateTime(2016, 5, 20, 8), "ann", "+01:00"),
                   Commit(DateTime(2019, 1, 1, 23), "bob", "-03:00")>>,
     branches |-> ("master" :> 2), default |-> "master",
     issues |-> <<Issue(2019, 6, 1, TRUE), Issue(2021, 3, 1, FALSE)>>]
WorldDevelop ==
    [commits |-> <<Commit(DateTime(2021, 6, 15, 9), "ann", "+01:00"),
                   Commit(DateTime(2022, 2, 10, 9), "ann", "+01:00")>>,
     branches |-> ("develop" :> 2), default |-> "develop",
     issues |-> <<Issue(2022, 1, 5, FALSE)>>]
WorldEmpty ==
    [commits |-> <<>>, branches |-> Empty, default |-> "main", issues |-> <<>>]
Worlds == {WorldSingle, WorldTwo, WorldDevelop, WorldEmpty}
\* what "git clone" of a repository's URL can bring
Remote(name) ==
    CASE name = "a" -> Worlds
      [] name = "c" -> {WorldEmpty}
      [] OTHER -> {WorldEmpty, WorldDevelop}
Now0 == DateTime(2024, 6, 1, 12)

MaxPipeFaults == 1
MaxTicks == 1
TickDays == 300
MaxYearsSmall == 2
DRY_RUN_REPOS == 3
SAVE_EVERY == 10
SAVE_EVERY_08B == 20

MayFail == pipeFaults < MaxPipeFaults
Oks == IF MayFail THEN BOOLEAN ELSE {TRUE}
Cost(ok) == IF ok THEN 0 ELSE 1
\* the repository of the current turn of run's loop, and clone_path:
\* os.path.join(self.clone_dir, name)
Repo == repos[run_i + 1]
Name == Repo.repo_name
Clone == clones[Name]
\* git clone --quiet <resolved_url> <clone_path>
CloneOf(repo, w) == [remote |-> <<repo.owner, repo.repo_slug>>] @@ FreshClone(w)

----------------------------------------------------------------------------
\* SocialMetricsExtractor.extract_for_period (08:264-350). Ratios are kept
\* in ten-thousandths (round(x, 4)); None is NoneT.
Lines(cl, until) == {k \in Reachable(cl) : cl.commits[k].date <= EndOfDay(until)}
Authors(cl, ks) == {cl.commits[k].author : k \in ks}
CommitsOf(cl, ks, a) == Cardinality({k \in ks : cl.commits[k].author = a})
TopCount(cl, ks) ==
    LET a == CHOOSE x \in Authors(cl, ks) :
                 \A y \in Authors(cl, ks) : CommitsOf(cl, ks, y) <= CommitsOf(cl, ks, x)
    IN  CommitsOf(cl, ks, a)
Round4(num, den) == (20000 * num + den) \div (2 * den)
Oldest(S) == CHOOSE k \in S : \A j \in S : k <= j
\* _count_issues_or_prs seen from its caller: the items created up to the
\* target day that are of the wanted kind; 0 when the API gives nothing.
CountUntil(cl, until, pr, api_ok) ==
    IF ~api_ok THEN 0
    ELSE Cardinality({i \in 1..Len(cl.issues) :
                         /\ ~(cl.issues[i].created > until \div DAY)
                         /\ cl.issues[i].is_pr = pr})
extract_for_period(cl, until, api_ok) ==
    LET ks == Lines(cl, until)
        m0 == [commit_count |-> 0, author_count |-> 0, bus_factor_number |-> NoneT,
               pr_count |-> CountUntil(cl, until, TRUE, api_ok),
               issue_count |-> CountUntil(cl, until, FALSE, api_ok),
               timezone_count |-> 0, days_active |-> 0]
    IN  IF ks = {} THEN m0
        ELSE [m0 EXCEPT
                !.commit_count = Cardinality(ks),
                !.author_count = Cardinality(Authors(cl, ks)),
                !.timezone_count = Cardinality({cl.commits[k].tz : k \in ks}),
                !.days_active = (cl.commits[Newest(ks)].date
                                   - cl.commits[Oldest(ks)].date) \div DAY,
                !.bus_factor_number = Round4(TopCount(cl, ks), Cardinality(ks))]
\* compute_community_smell_indicators (08:494-523)
compute_community_smell_indicators(m) ==
    LET bf == m.bus_factor_number IN
    [lone_wolf |-> IF bf # NoneT /\ bf > 9000 THEN 1 ELSE 0,
     radio_silence |-> IF m.pr_count = 0 /\ m.issue_count = 0 THEN 1 ELSE 0,
     org_silo |-> 0,
     org_silo_proxy |-> IF m.author_count >= 5 /\ bf # NoneT /\ bf > 7000 THEN 1 ELSE 0]

----------------------------------------------------------------------------
\* TemporalExtractionPipeline.run and process_repo (08)

Taint(r) == IF r = "pending" THEN "missed" ELSE r
NoTable == [written |-> FALSE, table |-> <<>>]

\* _save_results' column lists (08:790-796), without the two *_participants_mean
\* columns, which no record of the model carries
META_COLS == <<"repo_name", "owner", "repo_slug", "project_year", "snapshot_date",
               "first_commit_date", "snapshot_commit">>
SOCIAL_COLS == <<"commit_count", "author_count", "days_active", "bus_factor_number",
                 "pr_count", "issue_count", "timezone_count">>
INDICATOR_COLS == <<"lone_wolf", "radio_silence", "org_silo", "org_silo_proxy">>
\* sorted(): every key a record can have, in the order of Python's string comparison
ALPHABETICAL ==
    <<"author_count", "bus_factor_number", "commit_count", "days_active",
      "design_Feature_Envy", "design_Unutilized_Abstraction", "first_commit_date",
      "impl_Long_Method", "impl_Magic_Number", "issue_count", "lone_wolf", "org_silo",
      "org_silo_proxy", "owner", "pr_count", "project_year", "radio_silence",
      "repo_name", "repo_slug", "snapshot_commit", "snapshot_date", "timezone_count",
      "total_code_smells", "total_design_smells", "total_impl_smells">>
Among(seq, S) == LET In(k) == k \in S IN SelectSeq(seq, In)
Sorted(S) == Among(ALPHABETICAL, S)
Elems(seq) == {seq[j] : j \in 1..Len(seq)}
\* k.startswith("total_") or k.startswith("design_") or k.startswith("impl_")
IsSmellKey(k) ==
    k \in {"total_design_smells", "total_impl_smells", "total_code_smells",
            "design_Unutilized_Abstraction", "design_Feature_Envy", "impl_Long_Method",
            "impl_Magic_Number"}
AllKeys(res) == UNION {DOMAIN res[j] : j \in 1..Len(res)}
\* fieldnames: the listed columns that occur, then whatever is left, sorted
Fieldnames(res) ==
    LET all_keys == AllKeys(res)
        smell_cols == Sorted({k \in all_keys : IsSmellKey(k)})
        listed == Among(META_COLS \o SOCIAL_COLS \o INDICATOR_COLS \o smell_cols, all_keys)
    IN  listed \o Sorted(all_keys \ Elems(listed))
\* A faulty variant, for comparison: the file is opened for appending
SaveResultsAppending(old, res) ==
    IF res = <<>> THEN old
    ELSE [written |-> TRUE, table |-> old.table \o res, columns |-> Fieldnames(res)]
\* _save_results: nothing is written for an empty result set; otherwise the
\* file is written anew, header and one line per record
SaveResults(old, res) ==
    IF res = <<>> THEN old
    ELSE [written |-> TRUE, table |-> res, columns |-> Fieldnames(res)]

\* the entry of yearLog for a project-year whose commit lookup gave h
LogEntry(n, h, ok) ==
    [year |-> n, lookup |-> IF h = NoCommit THEN "none" ELSE "found", ran |-> ok,
     checkout |-> "-", tool |-> "-", social |-> "-", recorded |-> FALSE]
LastLog == Len(yearLog)

\* run, up to its loop: load_repos, and repos[:3] in a dry run
RunStart ==
    /\ program = "08" /\ runPc = "start"
    /\ repos' = IF dry_run THEN SubSeq(repos, 1, Min(Len(repos), DRY_RUN_REPOS)) ELSE repos
    /\ runPc' = "loop"
    /\ UNCHANGED <<program, clientVars, callerVars, auditVars, argVars, clones, rows, run_i,
                   all_results, failed, processed, saved_partial, saved_final,
                   repoVars, histVars>>

\* for i, repo in enumerate(repos): ... self.process_repo(repo)
RunNext ==
    /\ program = "08" /\ runPc = "loop" /\ pPc = "idle" /\ run_i < Len(repos)
    /\ pPc' = "clone"
    /\ results' = <<>>
    /\ first_commit_date' = NoneT
    /\ year_n' = 0
    /\ snapshot_date' = NoneT
    /\ commit_hash' = NoCommit
    /\ year_result' = Empty
    /\ attempted' = <<>>
    /\ stoppedAt' = 0
    /\ yearLog' = <<>>
    /\ gitCheckouts' = 0
    /\ visited' = Append(visited, run_i + 1)
    /\ restoreDue' = Taint(restoreDue)
    /\ UNCHANGED <<program, clientVars, callerVars, resolved, argVars, clones, runVars, now,
                   ticks, pipeFaults>>

\* clone_repo, and process_repo's early return when it gives None
CloneRepo ==
    /\ program = "08" /\ pPc = "clone"
    /\ IF Clone.exists
       THEN /\ pPc' = "origin"
            /\ UNCHANGED <<clones, pipeFaults>>
       ELSE \E ok \in Oks :
              /\ pipeFaults' = pipeFaults + Cost(ok)
              /\ IF ok
                 THEN \E w \in Remote(Name) :
                        /\ clones' = [clones EXCEPT ![Name] = CloneOf(Repo, w)]
                        /\ pPc' = "origin"
                 ELSE /\ pPc' = "returned"
                      /\ UNCHANGED clones
    /\ UNCHANGED <<program, clientVars, callerVars, auditVars, argVars, runVars, results,
                   first_commit_date, year_n, snapshot_date, commit_hash, year_result,
                   now, ticks, restoreDue, attempted, stoppedAt>>

\* A faulty variant, for comparison: without a first commit the function
\* still goes through its last lines
ResolveOriginFallsThrough ==
    /\ program = "08" /\ pPc = "origin"
    /\ \E ok \in Oks :
         /\ pipeFaults' = pipeFaults + Cost(ok)
         /\ first_commit_date' = get_first_commit_date(Clone, ok)
    /\ IF first_commit_date' = NoneT
       THEN pPc' = "final" /\ UNCHANGED year_n
       ELSE /\ year_n' = 1
            /\ pPc' = IF 1 <= max_years THEN "year" ELSE "final"
    /\ UNCHANGED <<program, clientVars, callerVars, auditVars, argVars, clones, runVars, results,
                   snapshot_date, commit_hash, year_result, now, ticks, restoreDue,
                   attempted, stoppedAt>>

\* first_commit_date = GitHelper.get_first_commit_date(repo_dir), the early
\* return when it is None, and the entry of the loop over range(1, max_years + 1)
ResolveOrigin ==
    /\ program = "08" /\ pPc = "origin"
    /\ \E ok \in Oks :
         /\ pipeFaults' = pipeFaults + Cost(ok)
         /\ first_commit_date' = get_first_commit_date(Clone, ok)
    /\ IF first_commit_date' = NoneT
       THEN pPc' = "returned" /\ UNCHANGED year_n
       ELSE /\ year_n' = 1
            /\ pPc' = IF 1 <= max_years THEN "year" ELSE "final"
    /\ UNCHANGED <<program, clientVars, callerVars, auditVars, argVars, clones, runVars, results,
                   snapshot_date, commit_hash, year_result, now, ticks, restoreDue,
                   attempted, stoppedAt>>

\* the next value of the for loop, or its end
AfterYear(n) == IF n + 1 <= max_years THEN "year" ELSE "final"

\* the head of one iteration: target date, future test, commit lookup and
\* the identity fields of year_result
YearStep ==
    /\ program = "08" /\ pPc = "year"
    /\ snapshot_date' = SnapshotDate(first_commit_date, year_n)
    /\ IF IsFuture(snapshot_date', now)
       THEN /\ pPc' = "final"
            /\ stoppedAt' = year_n
            /\ UNCHANGED <<year_n, commit_hash, year_result, pipeFaults, restoreDue,
                           attempted, yearLog>>
       ELSE /\ attempted' = Append(attempted, [year |-> year_n,
                                               target |-> snapshot_date', at |-> now])
            /\ restoreDue' = Taint(restoreDue)
            /\ UNCHANGED stoppedAt
            /\ \E ok \in Oks :
                 /\ pipeFaults' = pipeFaults + Cost(ok)
                 /\ commit_hash' = get_last_commit_before(Clone, snapshot_date', ok)
                 /\ yearLog' = Append(yearLog, LogEntry(year_n, commit_hash', ok))
            /\ IF commit_hash' = NoCommit
               THEN /\ year_n' = year_n + 1
                    /\ pPc' = AfterYear(year_n)
                    /\ UNCHANGED year_result
               ELSE /\ year_result' =
                         [repo_name |-> Name, owner |-> Repo.owner, repo_slug |-> Repo.repo_slug,
                          project_year |-> year_n,
                          snapshot_date |-> FormatDate(snapshot_date'),
                          first_commit_date |-> FormatDate(first_commit_date),
                          snapshot_commit |-> commit_hash']
                    /\ pPc' = IF use_designite /\ ~dry_run THEN "checkout" ELSE "social"
                    /\ UNCHANGED year_n
    /\ UNCHANGED <<program, clientVars, callerVars,
                   resolved, visited, gitCheckouts, argVars, clones, runVars, results,
                   first_commit_date, now, ticks>>

\* datetime.now() is later when it is read again
Tick ==
    /\ program = "08" /\ pPc = "year" /\ ticks < MaxTicks
    /\ now' = now + TickDays * DAY
    /\ ticks' = ticks + 1
    /\ UNCHANGED <<program, clientVars, callerVars, auditVars, argVars, clones, runVars, pPc,
                   results, first_commit_date, year_n, snapshot_date, commit_hash,
                   year_result, pipeFaults, restoreDue, attempted, stoppedAt>>

\* if GitHelper.checkout(repo_dir, commit_hash): ... else: warning
Checkout ==
    /\ program = "08" /\ pPc = "checkout"
    /\ restoreDue' = IF restoreDue = "missed" THEN "missed" ELSE "pending"
    /\ gitCheckouts' = gitCheckouts + 1
    /\ \E ok \in Oks :
         /\ pipeFaults' = pipeFaults + Cost(ok)
         /\ yearLog' = [yearLog EXCEPT ![LastLog].checkout = IF ok THEN "ok" ELSE "failed"]
         /\ IF ok
            THEN /\ clones' = [clones EXCEPT ![Name] = checkout(@, commit_hash)]
                 /\ pPc' = "analyse"
            ELSE /\ pPc' = "social"
                 /\ UNCHANGED clones
    /\ UNCHANGED <<program, clientVars, callerVars, resolved, visited, argVars, runVars, results,
                   first_commit_date, year_n, snapshot_date, commit_hash, year_result,
                   now, ticks, attempted, stoppedAt>>

\* what one run of the tool can do: create the output directory (or raise),
\* then finish and be parsed, or exit without having written its two CSV
\* files (the exit code is only logged), or time out and give {}
ToolOutcomes == IF MayFail THEN {"ok", "nofiles", "timeout", "raise"} ELSE {"ok"}
\* A faulty variant, for comparison: a run that gives nothing counts as zero smells
SmellsZeroed(out, k) ==
    IF out = "ok" THEN ParseResults(DesignRows(k), ImplRows(k))
    ELSE [total_design_smells |-> 0, total_impl_smells |-> 0, total_code_smells |-> 0]
Smells(out, k) ==
    CASE out = "ok" -> ParseResults(DesignRows(k), ImplRows(k))
      [] out = "nofiles" -> ParseResults(<<>>, <<>>)
      [] OTHER -> Empty

\* smells = self.designite.run(repo_dir, designite_out); year_result.update(smells)
Analyse ==
    /\ program = "08" /\ pPc = "analyse"
    /\ \E out \in ToolOutcomes :
         /\ pipeFaults' = pipeFaults + Cost(out = "ok")
         /\ yearLog' = [yearLog EXCEPT ![LastLog].tool = out]
         /\ IF out = "raise"
            THEN pPc' = "raised" /\ UNCHANGED year_result
            ELSE /\ year_result' = Update(year_result, Smells(out, Clone.head.at))
                 /\ pPc' = "restore"
    /\ UNCHANGED <<program, clientVars, callerVars,
                   resolved, visited, gitCheckouts, argVars, clones, runVars, results,
                   first_commit_date, year_n, snapshot_date, commit_hash, now, ticks,
                   restoreDue, attempted, stoppedAt>>

\* GitHelper.checkout_default_branch(repo_dir) after Designite
Restore ==
    /\ program = "08" /\ pPc = "restore"
    /\ clones' = [clones EXCEPT ![Name] = checkout_default_branch(@)]
    /\ restoreDue' = IF restoreDue = "missed" THEN "missed" ELSE "clean"
    /\ pPc' = "social"
    /\ gitCheckouts' = gitCheckouts + 1
    /\ UNCHANGED <<program, clientVars, callerVars,
                   resolved, yearLog, visited, argVars, runVars, results,
                   first_commit_date, year_n, snapshot_date, commit_hash, year_result,
                   now, ticks, pipeFaults, attempted, stoppedAt>>

SocialOutcomes == IF MayFail THEN {"ok", "no_api", "raise"} ELSE {"ok"}
\* the social step's update of year_result
\* A faulty variant, for comparison: --dry-run does not turn the extractor off
WithSocialInDryRun(yr, cl, out) ==
    IF use_api
    THEN LET social == extract_for_period(cl, snapshot_date, out = "ok")
         IN  Update(Update(yr, social), compute_community_smell_indicators(social))
    ELSE IF dry_run
    THEN Update(yr, [commit_count |-> get_commit_count_until(cl, snapshot_date)])
    ELSE yr
WithSocial(yr, cl, out) ==
    IF use_api /\ ~dry_run
    THEN LET social == extract_for_period(cl, snapshot_date, out = "ok")
         IN  Update(Update(yr, social), compute_community_smell_indicators(social))
    ELSE IF dry_run
    THEN Update(yr, [commit_count |-> get_commit_count_until(cl, snapshot_date)])
    ELSE yr

\* the responses the client counts (self.request_count += 1) during one
\* extract_for_period: one for the pull requests and one for the issues
\* when the API answers, none when no response arrives
Responses(out) == IF use_api /\ ~dry_run /\ out = "ok" THEN 2 ELSE 0

\* 3c and results.append(year_result)
Social ==
    /\ program = "08" /\ pPc = "social"
    /\ \E out \in (IF use_api /\ ~dry_run THEN SocialOutcomes ELSE {"ok"}) :
         /\ pipeFaults' = pipeFaults + Cost(out = "ok")
         /\ request_count' = request_count + Responses(out)
         /\ yearLog' = [yearLog EXCEPT ![LastLog].social = out,
                                        ![LastLog].recorded = (out # "raise")]
         /\ IF out = "raise"
            THEN /\ pPc' = "raised"
                 /\ UNCHANGED <<year_result, results, year_n>>
            ELSE /\ year_result' = WithSocial(year_result, Clone, out)
                 /\ results' = Append(results, year_result')
                 /\ year_n' = year_n + 1
                 /\ pPc' = AfterYear(year_n)
    /\ UNCHANGED <<program, clientRest, callerVars,
                   resolved, visited, gitCheckouts, argVars, clones, runVars,
                   first_commit_date, snapshot_date, commit_hash, now, ticks,
                   restoreDue, attempted, stoppedAt>>

\* if repo_dir: GitHelper.checkout_default_branch(repo_dir); return results
Final ==
    /\ program = "08" /\ pPc = "final"
    /\ clones' = [clones EXCEPT ![Name] = checkout_default_branch(@)]
    /\ restoreDue' = IF restoreDue = "missed" THEN "missed" ELSE "clean"
    /\ pPc' = "returned"
    /\ gitCheckouts' = gitCheckouts + 1
    /\ UNCHANGED <<program, clientVars, callerVars,
                   resolved, yearLog, visited, argVars, runVars, results,
                   first_commit_date, year_n, snapshot_date, commit_hash, year_result,
                   now, ticks, pipeFaults, attempted, stoppedAt>>

\* A faulty variant, for comparison: an exception of process_repo ends the loop
RunAfterAborting ==
    /\ program = "08" /\ runPc = "loop" /\ pPc \in {"returned", "raised"}
    /\ IF pPc = "returned"
       THEN /\ all_results' = all_results \o results
            /\ run_i' = run_i + 1
            /\ pPc' = "idle"
            /\ UNCHANGED <<failed, runPc>>
       ELSE /\ failed' = failed + 1
            /\ runPc' = "aborted"
            /\ UNCHANGED <<all_results, run_i, pPc>>
    /\ saved_partial' = IF (run_i + 1) % SAVE_EVERY = 0
                        THEN SaveResults(saved_partial, all_results')
                        ELSE saved_partial
    /\ UNCHANGED <<program, clientVars, callerVars, auditVars, argVars, clones, repos, rows,
                   processed, saved_final, results, first_commit_date, year_n,
                   snapshot_date, commit_hash, year_result, now, histVars>>

\* back in run: extend or count the failure, the partial save, next i
RunAfter ==
    /\ program = "08" /\ runPc = "loop" /\ pPc \in {"returned", "raised"}
    /\ IF pPc = "returned"
       THEN all_results' = all_results \o results /\ UNCHANGED failed
       ELSE failed' = failed + 1 /\ UNCHANGED all_results
    /\ saved_partial' = IF (run_i + 1) % SAVE_EVERY = 0
                        THEN SaveResults(saved_partial, all_results')
                        ELSE saved_partial
    /\ run_i' = run_i + 1
    /\ pPc' = "idle"
    /\ UNCHANGED <<program, clientVars, callerVars, auditVars, argVars, clones, runPc, repos, rows,
                   processed, saved_final, results, first_commit_date, year_n,
                   snapshot_date, commit_hash, year_result, now, histVars>>

\* self._save_results(all_results, timestamp, partial=False) and the summary
RunFinish ==
    /\ program = "08" /\ runPc = "loop" /\ pPc = "idle" /\ run_i = Len(repos)
    /\ saved_final' = SaveResults(saved_final, all_results)
    /\ runPc' = "done"
    /\ UNCHANGED <<program, clientVars, callerVars, auditVars, argVars, clones, repos, rows, run_i,
                   all_results, failed, processed, saved_partial, repoVars, histVars>>

----------------------------------------------------------------------------
\* main of 08b_run_designite_temporal.py: one turn of the loop per input row

Row == rows[run_i + 1]
RowClone == clones[Row.repo_name]
\* git checkout <commit> --force succeeds when the clone has the commit
HasCommit(cl, k) == k \in 1..Len(cl.commits)
\* A faulty variant, for comparison: only the rows that were analysed are written
SaveAnalysed(rws) ==
    [written |-> TRUE,
     table |-> LET Has(r) == "total_code_smells" \in DOMAIN r IN SelectSeq(rws, Has)]
\* _save(rows, fieldnames, all_smell_keys, path)
Save(rws) == [written |-> TRUE, table |-> rws]

\* from "for i, row" to the checkout, with its failure branch
RowStep ==
    /\ program = "08b" /\ runPc = "loop" /\ pPc = "idle" /\ run_i < Len(rows)
    /\ IF run_i < start_from
       THEN /\ run_i' = run_i + 1
            /\ UNCHANGED <<clones, failed, pPc, pipeFaults, restoreDue>>
       ELSE IF ~RowClone.exists
       THEN /\ failed' = failed + 1
            /\ run_i' = run_i + 1
            /\ UNCHANGED <<clones, pPc, pipeFaults, restoreDue>>
       ELSE \E ok \in Oks :
              /\ pipeFaults' = pipeFaults + Cost(ok)
              /\ IF ok /\ HasCommit(RowClone, Row.snapshot_commit)
                 THEN /\ clones' = [clones EXCEPT ![Row.repo_name] =
                                        checkout(@, Row.snapshot_commit)]
                      /\ restoreDue' = IF restoreDue = "clean" THEN "pending" ELSE "missed"
                      /\ pPc' = "analyse"
                      /\ UNCHANGED <<failed, run_i>>
                 ELSE /\ failed' = failed + 1
                      /\ clones' = [clones EXCEPT ![Row.repo_name] = checkout_default(@)]
                      /\ restoreDue' = Taint(restoreDue)
                      /\ run_i' = run_i + 1
                      /\ UNCHANGED pPc
    /\ UNCHANGED <<program, clientVars, callerVars, auditVars, argVars, runPc, repos, rows,
                   all_results, processed, saved_partial, saved_final, results,
                   first_commit_date, year_n, snapshot_date, commit_hash, year_result,
                   now, ticks, attempted, stoppedAt>>

\* smells = run_designite(...); row.update(smells)
RowAnalyse ==
    /\ program = "08b" /\ pPc = "analyse"
    /\ \E out \in ToolOutcomes :
         /\ pipeFaults' = pipeFaults + Cost(out = "ok")
         /\ IF out = "raise"
            THEN /\ pPc' = "raised"
                 /\ runPc' = "aborted"
                 /\ UNCHANGED rows
            ELSE /\ rows' = [rows EXCEPT ![run_i + 1] =
                                Update(@, Smells(out, Row.snapshot_commit))]
                 /\ pPc' = "restore"
                 /\ UNCHANGED runPc
    /\ UNCHANGED <<program, clientVars, callerVars, auditVars, argVars, clones, repos, run_i,
                   all_results, failed, processed, saved_partial, saved_final, results,
                   first_commit_date, year_n, snapshot_date, commit_hash, year_result,
                   now, ticks, restoreDue, attempted, stoppedAt>>

\* checkout_default(repo_dir); processed += 1; the partial save
RowRestore ==
    /\ program = "08b" /\ pPc = "restore"
    /\ clones' = [clones EXCEPT ![Row.repo_name] = checkout_default(@)]
    /\ restoreDue' = IF restoreDue = "missed" THEN "missed" ELSE "clean"
    /\ processed' = processed + 1
    /\ saved_partial' = IF processed' % SAVE_EVERY_08B = 0 THEN Save(rows)
                        ELSE saved_partial
    /\ run_i' = run_i + 1
    /\ pPc' = "idle"
    /\ UNCHANGED <<program, clientVars, callerVars, auditVars, argVars, runPc, repos, rows,
                   all_results, failed, saved_final, results, first_commit_date,
                   year_n, snapshot_date, commit_hash, year_result, now, ticks,
                   pipeFaults, attempted, stoppedAt>>

\* _save(rows, fieldnames, all_smell_keys, args.output)
RowsFinish ==
    /\ program = "08b" /\ runPc = "loop" /\ pPc = "idle" /\ run_i = Len(rows)
    /\ saved_final' = Save(rows)
    /\ runPc' = "done"
    /\ UNCHANGED <<program, clientVars, callerVars, auditVars, argVars, clones, repos, rows, run_i,
                   all_results, failed, processed, saved_partial, repoVars, histVars>>

----------------------------------------------------------------------------
\* The runs of the two scripts
RepoNames == {"a", "b"}
\* a row of the list load_repos returns: repo_name from the CSV, owner and
\* repo_slug from the resolved URL
RepoRow(name, owner) == [repo_name |-> name, owner |-> owner, repo_slug |-> name]
RepoLists == {<<RepoRow("a", "ann")>>, <<RepoRow("a", "ann"), RepoRow("b", "ann")>>,
              <<RepoRow("b", "ann"), RepoRow("b", "bob")>>}
\* (dry_run, use_designite, use_api)
Configs == {<<FALSE, TRUE, TRUE>>, <<TRUE, TRUE, TRUE>>, <<FALSE, FALSE, TRUE>>,
            <<FALSE, TRUE, FALSE>>}
\* a row of the table 08 wrote: identity, social and indicator fields
InputRow(name, year, k) ==
    [repo_name |-> name, owner |-> "ann", project_year |-> year, snapshot_commit |-> k,
     commit_count |-> k, radio_silence |-> 1]
\* a row that already has the technical fields of its commit
Analysed(r) == Update(r, ParseResults(DesignRows(r.snapshot_commit),
                                      ImplRows(r.snapshot_commit)))
InputTables == {<<InputRow("a", 1, 1), InputRow("a", 2, 2)>>,
                <<InputRow("a", 1, 2), InputRow("b", 1, 3)>>,
                <<Analysed(InputRow("a", 1, 1)), InputRow("b", 1, 2)>>}
ClonesOnDisk == [RepoNames -> {NoClone, FreshClone(WorldTwo), FreshClone(WorldDevelop)}]

\* no call of the API client is modelled inside the pipeline
ClientUnused ==
    /\ NewClient
    /\ getPc = "idle" /\ callerPc = "done"
    /\ max_retries = 0 /\ max_pages = 0 /\ item_type = "" /\ until_date = 0

PipelineLocals ==
    /\ run_i = 0 /\ all_results = <<>> /\ failed = 0 /\ processed = 0
    /\ saved_partial = NoTable /\ saved_final = NoTable
    /\ pPc = "idle" /\ results = <<>> /\ first_commit_date = NoneT /\ year_n = 0
    /\ snapshot_date = NoneT /\ commit_hash = NoCommit /\ year_result = Empty
    /\ now = Now0
    /\ ticks = 0 /\ pipeFaults = 0 /\ restoreDue = "clean"
    /\ attempted = <<>> /\ stoppedAt = 0
    /\ resolved = <<>> /\ yearLog = <<>> /\ visited = <<>> /\ gitCheckouts = 0

Init08 ==
    /\ program = "08" /\ ClientUnused /\ PipelineLocals
    /\ \E c \in Configs : dry_run = c[1] /\ use_designite = c[2] /\ use_api = c[3]
    /\ max_years \in {MaxYearsSmall, MAX_PROJECT_YEARS}
    /\ start_from = 0
    /\ clones = [n \in RepoNames |-> NoClone]
    /\ runPc = "start" /\ repos \in RepoLists /\ rows = <<>>

Init08b ==
    /\ program = "08b" /\ ClientUnused /\ PipelineLocals
    /\ dry_run = FALSE /\ use_designite = TRUE /\ use_api = FALSE
    /\ max_years = 0
    /\ start_from \in {0, 1}
    /\ clones \in ClonesOnDisk
    /\ runPc = "loop" /\ repos = <<>> /\ rows \in InputTables

InitPipeline == Init08 \/ Init08b

NextPipeline ==
    \/ RunStart \/ RunNext \/ CloneRepo \/ ResolveOrigin \/ YearStep \/ Tick
    \/ Checkout \/ Analyse \/ Restore \/ Social \/ Final \/ RunAfter \/ RunFinish
    \/ RowStep \/ RowAnalyse \/ RowRestore \/ RowsFinish

SpecPipeline == InitPipeline /\ [][NextPipeline]_vars

\* run of 08 on its own, with --max-years given. The script is a sequential
\* program with nothing to wait for but its own subprocesses, each of which
\* ends or times out: a step that can be taken is taken.
InitRun == Init08 /\ max_years = MaxYearsSmall
NextRun ==
    \/ RunStart \/ RunNext \/ CloneRepo \/ ResolveOrigin \/ YearStep \/ Tick
    \/ Checkout \/ Analyse \/ Restore \/ Social \/ Final \/ RunAfter \/ RunFinish
FairRun == InitRun /\ [][NextRun]_vars /\ WF_vars(NextRun)

\* The two scripts resumed by the operator: --start-from 1
InitResume ==
    \/ /\ program = "08" /\ ClientUnused /\ PipelineLocals
       /\ \E c \in Configs : dry_run = c[1] /\ use_designite = c[2] /\ use_api = c[3]
       /\ max_years = MaxYearsSmall
       /\ start_from = 1
       /\ clones = [n \in RepoNames |-> NoClone]
       /\ runPc = "start" /\ repos \in RepoLists /\ rows = <<>>
    \/ Init08b /\ start_from = 1
SpecResume == InitResume /\ [][NextPipeline]_vars

----------------------------------------------------------------------------
\* run of 08 with an external interrupt (SIGINT): Python raises
\* KeyboardInterrupt in the statement being executed. It is not an Exception,
\* so the "except Exception" clauses of GitHelper, DesigniteRunner,
\* clone_repo and run let it through, and neither process_repo nor run nor
\* main has a finally clause or a handler for it: the process ends with
\* the traceback, whatever it was doing.
Interrupt ==
    /\ program = "08" /\ runPc \in {"start", "loop"}
    /\ runPc' = "aborted"
    /\ pPc' = "interrupted"
    /\ UNCHANGED <<program, clientVars, callerVars, auditVars, argVars, clones, repos, rows,
                   run_i, all_results, failed, processed, saved_partial, saved_final,
                   results, first_commit_date, year_n, snapshot_date, commit_hash,
                   year_result, now, histVars>>

Without(s, k) == SubSeq(s, 1, k - 1) \o SubSeq(s, k + 1, Len(s))

\* The two places with a bare "except:" around the subprocess swallow the
\* interrupt: in checkout_default_branch the candidate being tried counts as
\* failed and the next one is tried (08:210-220); in a dry run
\* get_commit_count_until gives 0 (08:240-252). The run goes on.
InterruptSwallowed ==
    /\ program = "08" /\ runPc = "loop" /\ MayFail
    /\ pPc \in {"restore", "final"} \/ (pPc = "social" /\ dry_run)
    /\ pipeFaults' = pipeFaults + 1
    /\ IF pPc = "social"
       THEN /\ year_result' = Update(year_result, [commit_count |-> 0])
            /\ results' = Append(results, year_result')
            /\ yearLog' = [yearLog EXCEPT ![LastLog].social = "ok",
                                           ![LastLog].recorded = TRUE]
            /\ year_n' = year_n + 1
            /\ pPc' = AfterYear(year_n)
            /\ UNCHANGED <<clones, restoreDue, gitCheckouts>>
       ELSE /\ \E k \in 1..Len(Candidates08) :
                 clones' = [clones EXCEPT ![Name] =
                                TryBranches(@, Without(Candidates08, k)).clone]
            /\ restoreDue' = IF restoreDue = "missed" THEN "missed" ELSE "clean"
            /\ gitCheckouts' = gitCheckouts + 1
            /\ pPc' = IF pPc = "restore" THEN "social" ELSE "returned"
            /\ UNCHANGED <<year_result, results, yearLog, year_n>>
    /\ UNCHANGED <<program, clientVars, callerVars, resolved, visited, argVars, runVars,
                   first_commit_date, snapshot_date, commit_hash, now, ticks,
                   attempted, stoppedAt>>

\* a list long enough for the partial save: one repository with a history
\* and nine rows of one without
LongList == <<RepoRow("a", "ann")>> \o [j \in 1..(SAVE_EVERY - 1) |-> RepoRow("c", "ann")]
InitInterrupt ==
    /\ program = "08" /\ ClientUnused /\ PipelineLocals
    /\ \E c \in Configs : dry_run = c[1] /\ use_designite = c[2] /\ use_api = c[3]
    /\ max_years = MaxYearsSmall
    /\ start_from = 0
    /\ clones = [n \in RepoNames \cup {"c"} |-> NoClone]
    /\ runPc = "start" /\ repos \in RepoLists \cup {LongList} /\ rows = <<>>
NextInterrupt == NextRun \/ Interrupt \/ InterruptSwallowed
SpecInterrupt == InitInterrupt /\ [][NextInterrupt]_vars

----------------------------------------------------------------------------
\* _save_results on its own: an accumulated result set is drawn and the
\* function is called on it more than once, as a partial or as a final save.
MaxSaves == 2
Identity(name, n, k) ==
    [repo_name |-> name, owner |-> "ann", repo_slug |-> name, project_year |-> n,
     snapshot_date |-> <<2020 + n, 1, 1>>, first_commit_date |-> <<2020, 1, 2>>,
     snapshot_commit |-> k]
SocialOf(w, t) ==
    LET social == extract_for_period(FreshClone(w), t, TRUE)
    IN  Update(social, compute_community_smell_indicators(social))
\* records as process_repo makes them: identity only, dry run, social,
\* social and technical, technical only
SampleRecords ==
    {Identity("a", 1, 1),
     Update(Identity("a", 1, 1), [commit_count |-> 3]),
     Update(Identity("a", 1, 1), SocialOf(WorldTwo, DateTime(2021, 1, 1, 0))),
     Update(Update(Identity("a", 2, 2), SocialOf(WorldTwo, DateTime(2022, 1, 1, 0))),
            ParseResults(DesignRows(2), ImplRows(2))),
     Update(Identity("b", 1, 1), ParseResults(DesignRows(1), ImplRows(1)))}
ResultSets == {<<>>} \cup {<<r>> : r \in SampleRecords}
                  \cup {<<r, q>> : r \in SampleRecords, q \in SampleRecords}

InitSave ==
    /\ program = "save" /\ ClientUnused
    /\ dry_run = FALSE /\ use_designite = FALSE /\ use_api = FALSE
    /\ max_years = 0 /\ start_from = 0
    /\ clones = [n \in RepoNames |-> NoClone]
    /\ runPc = "loop" /\ repos = <<>> /\ rows = <<>> /\ run_i = 0
    /\ all_results \in ResultSets /\ failed = 0 /\ processed = 0
    /\ saved_partial = NoTable /\ saved_final = NoTable
    /\ pPc = "idle" /\ results = <<>> /\ first_commit_date = NoneT /\ year_n = 0
    /\ snapshot_date = NoneT /\ commit_hash = NoCommit /\ year_result = Empty
    /\ now = Now0
    /\ ticks = 0 /\ pipeFaults = 0 /\ restoreDue = "clean"
    /\ attempted = <<>> /\ stoppedAt = 0
    /\ resolved = <<>> /\ yearLog = <<>> /\ visited = <<>> /\ gitCheckouts = 0

\* self._save_results(all_results, timestamp, partial): run_i counts the calls
SaveCall ==
    /\ program = "save" /\ run_i < MaxSaves
    /\ \E partial \in BOOLEAN :
         IF partial
         THEN saved_partial' = SaveResults(saved_partial, all_results)
              /\ UNCHANGED saved_final
         ELSE saved_final' = SaveResults(saved_final, all_results)
              /\ UNCHANGED saved_partial
    /\ run_i' = run_i + 1
    /\ UNCHANGED <<program, clientVars, callerVars, auditVars, argVars, clones, runPc, repos,
                   rows, all_results, failed, processed, repoVars, histVars>>

NextSave == SaveCall
SpecSave == InitSave /\ [][NextSave]_vars

----------------------------------------------------------------------------
\* run_batch.py: the csDetector batch runner.  It reuses the variables of the
\* pipeline: repos is the list read from the file, start_from the --start-from
\* option ("" when absent), max_retries the --max-retries option, run_i the
\* loop's idx, attempt the retry loop's variable, results the dictionary of
\* the three lists, processed the counter already_done, clones the output
\* directory (per URL: is results_0.csv there, is the clone there),
\* saved_final batch_report.json, visited the idx of every execution of
\* devNetwork.py, in order.
RETRY_WAIT == 5
REPORT_EVERY == 5
MaxBatchRetries == 2

\* An entry of the list: "https://github.com/<owner>/<name>" is held as its
\* owner and name, a bare repository name as a name without owner.
Url(owner, name) == [owner |-> owner, name |-> name]
Bare(name) == [owner |-> "", name |-> name]
NoUrl == [owner |-> "", name |-> ""]
\* repo.startswith("http")
IsUrl(repo) == repo.owner # ""
\* the --owner-map file and the --default-owner option (absent) of the run
OwnerMapArg == [a |-> "ann"]
DefaultOwnerArg == ""

infer_github_url(repo, owner_map, default_owner) ==
    IF IsUrl(repo) THEN repo
    ELSE IF repo.name \in DOMAIN owner_map THEN Url(owner_map[repo.name], repo.name)
    ELSE IF default_owner # "" THEN Url(default_owner, repo.name)
    ELSE NoUrl

BatchUrls == {Url("ann", "a"), Url("ann", "b")}
repo_already_processed(repo_url, disk) == disk[repo_url].results

\* "repo == args.start_from or repo.endswith(f'/{args.start_from}')", for a
\* --start-from that is a bare name
Matches(repo, name) == repo.name = name
\* start_idx (0-based): the first match, 0 without a match or without option
StartIdx(rs, name) ==
    IF name # "" /\ \E i \in 1..Len(rs) : Matches(rs[i], name)
    THEN (CHOOSE i \in 1..Len(rs) :
              Matches(rs[i], name) /\ \A j \in 1..(i - 1) : ~Matches(rs[j], name)) - 1
    ELSE 0

BatchEntries == {Url("ann", "a"), Url("ann", "b"), Bare("a"), Bare("x")}
LongBatch == <<Url("ann", "a"), Bare("x"), Url("ann", "b"), Bare("a"),
               Url("ann", "b"), Url("ann", "a")>>
BatchLists == {<<>>} \cup {<<r>> : r \in BatchEntries}
                  \cup {<<r, q>> : r \in BatchEntries, q \in BatchEntries}
                  \cup {LongBatch}
StartFromArgs == {"", "b", "z"}
NoResults == [success |-> <<>>, failed |-> <<>>, skipped |-> <<>>]

batchRest == <<program, remaining, reset_time, request_count, getPc, max_retries,
               getResult, outcome, callReqs, firstCode, waitedAt, callChecks,
               lastResp, hintWait, faults, callerVars, argVars, repos, rows,
               all_results, failed, saved_partial, pPc, first_commit_date, year_n,
               snapshot_date, commit_hash, year_result, now, histVars, resolved,
               yearLog, gitCheckouts>>

InitBatch ==
    /\ program = "batch" /\ NewClient
    /\ getPc = "idle" /\ callerPc = "done"
    /\ max_retries \in 0..MaxBatchRetries
    /\ max_pages = 0 /\ item_type = "" /\ until_date = 0
    /\ dry_run = FALSE /\ use_designite = FALSE /\ use_api = FALSE
    /\ max_years = 0 /\ start_from \in StartFromArgs
    /\ clones \in [BatchUrls -> {[results |-> FALSE, clone |-> FALSE],
                                 [results |-> TRUE, clone |-> FALSE]}]
    /\ runPc = "start" /\ repos \in BatchLists /\ rows = <<>> /\ run_i = 0
    /\ all_results = <<>> /\ failed = 0 /\ processed = 0
    /\ saved_partial = NoTable /\ saved_final = NoTable
    /\ pPc = "idle" /\ results = NoResults /\ first_commit_date = NoneT /\ year_n = 0
    /\ snapshot_date = NoneT /\ commit_hash = NoCommit /\ year_result = Empty
    /\ now = Now0
    /\ ticks = 0 /\ pipeFaults = 0 /\ restoreDue = "clean"
    /\ attempted = <<>> /\ stoppedAt = 0
    /\ resolved = <<>> /\ yearLog = <<>> /\ visited = <<>> /\ gitCheckouts = 0

\* main, lines 169-190: start_idx; "repos[start_idx]" of the message raises
\* IndexError on an empty list
BatchStart ==
    /\ program = "batch" /\ runPc = "start"
    /\ IF start_from # "" /\ repos = <<>>
       THEN runPc' = "crashed" /\ UNCHANGED run_i
       ELSE runPc' = "loop" /\ run_i' = StartIdx(repos, start_from)
    /\ UNCHANGED <<batchRest, clock, attempt, clones, processed, saved_final,
                   results, visited>>

BatchRepo == repos[run_i + 1]
BatchRepoUrl == infer_github_url(BatchRepo, OwnerMapArg, DefaultOwnerArg)
AtRepo == program = "batch" /\ runPc = "loop" /\ run_i < Len(repos)

\* lines 199-203: no URL, "continue"
BatchSkip ==
    /\ AtRepo /\ BatchRepoUrl = NoUrl
    /\ results' = [results EXCEPT !.skipped =
                       Append(@, [repo |-> BatchRepo, reason |-> "cannot_infer_url"])]
    /\ run_i' = run_i + 1
    /\ UNCHANGED <<batchRest, clock, attempt, clones, processed, saved_final,
                   runPc, visited>>

\* lines 206-213: results_0.csv is there, "continue"
BatchAlreadyDone ==
    /\ AtRepo /\ BatchRepoUrl # NoUrl
    /\ repo_already_processed(BatchRepoUrl, clones)
    /\ processed' = processed + 1
    /\ results' = [results EXCEPT !.success =
                       Append(@, [repo |-> BatchRepo, url |-> BatchRepoUrl, attempt |-> 0])]
    /\ run_i' = run_i + 1
    /\ UNCHANGED <<batchRest, clock, attempt, clones, saved_final, runPc, visited>>

\* "if (idx + 1) % 5 == 0 or idx == total - 1"
ReportDue(idx) == (idx + 1) % REPORT_EVERY = 0 \/ idx = Len(repos) - 1
\* lines 274-284, without the two timestamps
Report(res, idx) ==
    [written |-> TRUE, table |-> res,
     summary |-> [total |-> Len(repos),
                  processed |-> idx + 1 - StartIdx(repos, start_from),
                  success |-> Len(res.success), failed |-> Len(res.failed),
                  skipped |-> Len(res.skipped), already_done |-> processed]]
\* lines 265-284 with the loop's step: the entry of a repository that was
\* executed (or whose retry loop was empty), then the report when it is due
EndOfRepo(res) ==
    /\ results' = res
    /\ saved_final' = IF ReportDue(run_i) THEN Report(res, run_i) ELSE saved_final
    /\ run_i' = run_i + 1
    /\ runPc' = "loop"

Failure(error) == [repo |-> BatchRepo, url |-> BatchRepoUrl, error |-> error]

\* lines 215-222: the retry loop is entered; "range(1, max_retries + 1)" is
\* empty for --max-retries 0
BatchBegin ==
    /\ AtRepo /\ BatchRepoUrl # NoUrl
    /\ ~repo_already_processed(BatchRepoUrl, clones)
    /\ IF max_retries >= 1
       THEN /\ runPc' = "try" /\ attempt' = 1
            /\ UNCHANGED <<results, saved_final, run_i>>
       ELSE /\ EndOfRepo([results EXCEPT !.failed = Append(@, Failure(""))])
            /\ UNCHANGED attempt
    /\ UNCHANGED <<batchRest, clock, clones, processed, visited>>

BatchOutcomes == {"ok", "nonzero", "timeout", "error"}
\* the output directory after one execution: devNetwork.py clones the
\* repository and appends to results_0.csv during its analysis, so a run that
\* fails later can leave the file; "error" is a subprocess that never started;
\* run_batch removes the clone after a timeout and before a retry
AfterRun(disk, url, out, wrote, retrying) ==
    CASE out = "ok" -> [disk EXCEPT ![url] = [results |-> TRUE, clone |-> TRUE]]
      [] out = "nonzero" ->
             [disk EXCEPT ![url] = [results |-> @.results \/ wrote, clone |-> ~retrying]]
      [] out = "timeout" ->
             [disk EXCEPT ![url] = [results |-> @.results \/ wrote, clone |-> FALSE]]
      [] OTHER -> disk

\* lines 222-284: one turn of the retry loop, with what follows the loop
\* when this turn is its last
BatchAttempt ==
    /\ program = "batch" /\ runPc = "try"
    /\ \E out \in BatchOutcomes, wrote \in BOOLEAN :
         /\ clones' = AfterRun(clones, BatchRepoUrl, out, wrote, attempt < max_retries)
         /\ visited' = Append(visited, run_i)
         /\ IF out = "ok"
            THEN /\ EndOfRepo([results EXCEPT !.success =
                       Append(@, [repo |-> BatchRepo, url |-> BatchRepoUrl,
                                  attempt |-> attempt])])
                 /\ UNCHANGED <<attempt, clock>>
            ELSE IF attempt < max_retries
            THEN /\ attempt' = attempt + 1
                 /\ clock' = clock + 10 * RETRY_WAIT * attempt
                 /\ UNCHANGED <<results, saved_final, run_i, runPc>>
            ELSE /\ EndOfRepo([results EXCEPT !.failed = Append(@, Failure(out))])
                 /\ UNCHANGED <<attempt, clock>>
    /\ UNCHANGED <<batchRest, processed>>

\* lines 286-300: the loop is over
BatchComplete ==
    /\ program = "batch" /\ runPc = "loop" /\ run_i = Len(repos)
    /\ runPc' = "done"
    /\ UNCHANGED <<batchRest, clock, attempt, clones, processed, saved_final,
                   results, run_i, visited>>

NextBatch ==
    \/ BatchStart
    \/ BatchSkip
    \/ BatchAlreadyDone
    \/ BatchBegin
    \/ BatchAttempt
    \/ BatchComplete
SpecBatch == InitBatch /\ [][NextBatch]_vars

----------------------------------------------------------------------------
\* GitHelper's two queries on their own: a clone as process_repo finds it
\* (HEAD at the tip of the history, on the branch or detached) and a target
\* date are drawn, the origin is resolved and the snapshot commit is
\* resolved more than once, nothing else touching the clone in between.
MaxResolves == 2
GitTargets ==
    {DateTime(2016, 5, 19, 12), DateTime(2016, 5, 20, 0), DateTime(2018, 12, 31, 23),
     DateTime(2019, 1, 1, 0), DateTime(2019, 1, 2, 0), DateTime(2021, 6, 15, 23),
     DateTime(2022, 2, 9, 9), DateTime(2022, 2, 10, 0)}
GitClones ==
    {FreshClone(w) : w \in Worlds}
        \cup {checkout(FreshClone(w), Len(w.commits)) : w \in Worlds \ {WorldEmpty}}

InitGit ==
    /\ program = "git" /\ ClientUnused
    /\ dry_run = FALSE /\ use_designite = FALSE /\ use_api = FALSE
    /\ max_years = 0 /\ start_from = 0
    /\ \E cl \in GitClones : clones = [n \in {"a"} |-> cl]
    /\ runPc = "loop" /\ repos = <<RepoRow("a", "ann")>> /\ rows = <<>> /\ run_i = 0
    /\ all_results = <<>> /\ failed = 0 /\ processed = 0
    /\ saved_partial = NoTable /\ saved_final = NoTable
    /\ pPc = "origin" /\ results = <<>> /\ first_commit_date = NoneT /\ year_n = 0
    /\ snapshot_date \in GitTargets /\ commit_hash = NoCommit /\ year_result = Empty
    /\ now = Now0
    /\ ticks = 0 /\ pipeFaults = 0 /\ restoreDue = "clean"
    /\ attempted = <<>> /\ stoppedAt = 0
    /\ resolved = <<>> /\ yearLog = <<>> /\ visited = <<>> /\ gitCheckouts = 0

\* first_commit_date = GitHelper.get_first_commit_date(repo_dir)
GitOrigin ==
    /\ program = "git" /\ pPc = "origin"
    /\ \E ok \in Oks :
         /\ pipeFaults' = pipeFaults + Cost(ok)
         /\ first_commit_date' = get_first_commit_date(Clone, ok)
    /\ pPc' = "resolve"
    /\ UNCHANGED <<program, clientVars, callerVars, auditVars, argVars, clones, runVars,
                   results, year_n, snapshot_date, commit_hash, year_result, now, ticks,
                   restoreDue, attempted, stoppedAt>>

\* commit_hash = GitHelper.get_last_commit_before(repo_dir, snapshot_date)
GitResolve ==
    /\ program = "git" /\ pPc = "resolve" /\ Len(resolved) < MaxResolves
    /\ \E ok \in Oks :
         /\ pipeFaults' = pipeFaults + Cost(ok)
         /\ commit_hash' = get_last_commit_before(Clone, snapshot_date, ok)
         /\ resolved' = Append(resolved, [commit |-> commit_hash', ran |-> ok])
    /\ UNCHANGED <<program, clientVars, callerVars, argVars, clones, runVars, pPc,
                   results, first_commit_date, year_n, snapshot_date, year_result, now,
                   ticks, restoreDue, attempted, stoppedAt, yearLog, visited,
                   gitCheckouts>>

NextGit == GitOrigin \/ GitResolve

SpecGit == InitGit /\ [][NextGit]_vars

----------------------------------------------------------------------------
\* Properties of the API clients

InCall == getPc \in {"send", "recv", "ret"}
\* The failures each client retries.
Transient(r) ==
    IF IsRest
    THEN r.kind \in {"error", "badbody"} \/ r.code \in {403, 429, 500, 502, 503}
    ELSE r.kind \in {"error", "errors"} \/ r.code \in {403, 429, 502, 503}
RECURSIVE Flatten(_)
Flatten(pages) ==
    IF pages = <<>> THEN <<>>
    ELSE (IF Head(pages).ok THEN Head(pages).data ELSE <<>>) \o Flatten(Tail(pages))
FullPage(res) == res.ok /\ Len(res.data) = PER_PAGE

\* C3: the tracked remaining count is never negative, and a request of
\* GitHubAPI.get is in flight with the tracked count below the low-water mark
\* only if _check_rate_limit has slept until the tracked reset deadline plus
\* the margin since the count was last assigned.
C3_BudgetGuardsEveryRequest ==
    /\ remaining >= 0
    /\ (IsRest /\ getPc = "recv" /\ remaining < LOW_WATER)
         => (waitedAt # -1 /\ waitedAt >= Sec(reset_time) + Sec(RATE_MARGIN))

\* C4: after every answer that is an HTTP response (200 or an HTTP error) the
\* tracked remaining count and reset deadline are the ones that response
\* reported, and every request of a call, retries included, was preceded by
\* its own run of _check_rate_limit.
C4_BudgetFollowsEveryResponse ==
    /\ (IsRest /\ InCall /\ lastResp.kind \in {"ok", "badbody", "http"})
         => (remaining = lastResp.remaining /\ reset_time = lastResp.reset)
    /\ (IsRest /\ InCall) => callReqs <= callChecks

\* C5 as stated: a call issues at most 3 (get) or max_retries
\* (runGraphqlRequest) requests and never raises: once the attempts are
\* used up it returns "no result".
C5_NeverRaises ==
    /\ IsRest => callReqs <= GET_ATTEMPTS
    /\ program = "graphql" => callReqs <= max_retries
    /\ outcome # "raised"
    /\ (getPc = "ret" /\ outcome # "data") => outcome = "none"

\* C5 as amended: a call issues at most 3 (get) or max_retries
\* (runGraphqlRequest) requests; a transient failure is followed by another
\* attempt while attempts remain; once they are used up GitHubAPI.get returns
\* None and never raises, whereas runGraphqlRequest raises (and it raises at
\* once on any other status or on a 200 body with neither data nor errors).
C5_BoundedAttempts ==
    /\ IsRest =>
         /\ callReqs <= GET_ATTEMPTS
         /\ outcome # "raised"
         /\ (getPc = "ret" /\ outcome # "data") => (outcome = "none" /\ getResult = None)
         /\ (getPc \in {"send", "ret"} /\ Transient(lastResp)) =>
               IF callReqs < GET_ATTEMPTS
               THEN getPc = "send" /\ attempt = callReqs
               ELSE getPc = "ret" /\ outcome = "none"
    /\ program = "graphql" =>
         /\ callReqs <= max_retries
         /\ outcome # "none"
         /\ (getPc \in {"send", "ret"} /\ Transient(lastResp)) =>
               IF callReqs < max_retries
               THEN getPc = "send" /\ attempt = callReqs
               ELSE getPc = "ret" /\ outcome = "raised"
         /\ (getPc = "ret" /\ ~Transient(lastResp) /\ lastResp.kind # "data")
               => outcome = "raised"
C5_Witness ==
    /\ program = "get_paginated" /\ getPc = "ret"
    /\ callReqs = GET_ATTEMPTS /\ lastResp.code = 503 /\ outcome = "none"

\* C6: once a 404 or 422 is answered, get is over: it returns None and has
\* neither slept nor sent another request (exactly one request when that was
\* the first answer); the listing loop then ends, with a count of 0 when the
\* answer came for its first page, and returns its result normally.
C6_AbsenceIsFinal ==
    /\ (IsRest /\ InCall /\ lastResp.code \in {404, 422}) =>
          /\ getPc = "ret" /\ getResult = None /\ outcome = "none"
          /\ clock = lastResp.at
    /\ (IsRest /\ InCall /\ firstCode \in {404, 422}) => callReqs = 1
    /\ (program = "count_issues" /\ getPc = "idle" /\ lastResp.code \in {404, 422}) =>
          /\ callerPc = "done"
          /\ Len(asked) = Len(fetched)
          /\ Len(asked) = 1 => countResult = [count |-> 0]
C6_Witness ==
    /\ program = "count_issues" /\ callerPc = "done" /\ Len(asked) = 1
    /\ lastResp.code = 404 /\ callReqs = 1 /\ countResult.count = 0

\* C7: a wait derived from a rate-limit-reset hint never exceeds the ceiling
\* of 300 s, in runGraphqlRequest and in GitHubAPI.get.
C7_HintedWaitCapped == hintWait <= Sec(GQL_MAX_WAIT)

\* C8: get_paginated and the listing loop ask for pages 1, 2, ... in order,
\* make at most max_pages (20 in the listing loop) get calls, ask for a
\* further page only after a full page of 100 items, and get_paginated's
\* items are the concatenation, in page order, of the pages get returned.
C8_PagesInOrder ==
    IsRest =>
      /\ \A i \in 1..Len(asked) : asked[i] = i
      /\ Len(asked) <= max_pages
      /\ program = "count_issues" => Len(asked) <= COUNT_MAX_PAGES
      /\ Len(fetched) = (IF callerPc = "await" THEN Len(asked) - 1 ELSE Len(asked))
      /\ \A i \in 1..(Len(asked) - 1) : FullPage(fetched[i])
      /\ (callerPc = "loop" /\ Len(asked) > 0) =>
            (page = Len(asked) + 1 \/ (program = "count_issues" /\ page > max_pages))
      /\ program = "get_paginated" => all_items = Flatten(fetched)
C8_Witness ==
    /\ program = "get_paginated" /\ callerPc = "done"
    /\ max_pages = 2 /\ Len(asked) = 2 /\ Len(all_items) = 2 * PER_PAGE

----------------------------------------------------------------------------
\* Properties of the pipeline

Processing == program = "08" /\ runPc = "loop" /\ pPc # "idle"

\* C1: when process_repo has finished for a repository that has a clone, by
\* returning or by raising, the clone's HEAD is on the default branch.
C1_OnDefaultBranchAfterRepo ==
    (program = "08" /\ pPc \in {"returned", "raised"} /\ Clone.exists)
        => OnDefaultBranch(Clone)

\* C2: no snapshot and no repository is taken up while a snapshot checkout
\* has been attempted and no restore of the default branch attempted since.
C2_RestoreBeforeNext == restoreDue # "missed"

\* C9: the project-years that pass the future test are 1, 2, ... in order,
\* their target dates increase strictly and none is later than "now"; once a
\* target date exceeds "now" the loop is over, no later year is attempted
\* and the records of the earlier years are all in results, each with the
\* target date of its year.
C9_YearsInOrderUntilFuture ==
    Processing /\ first_commit_date # NoneT =>
        /\ \A i \in 1..Len(attempted) :
             /\ attempted[i].year = i
             /\ attempted[i].target <= attempted[i].at
             /\ attempted[i].at <= now
        /\ \A i \in 1..(Len(attempted) - 1) :
             attempted[i].target < attempted[i + 1].target
        /\ \A j \in 1..Len(results) :
             /\ results[j].project_year \in 1..Len(attempted)
             /\ results[j].snapshot_date =
                    FormatDate(attempted[results[j].project_year].target)
             /\ attempted[results[j].project_year].target <= now
             /\ j > 1 => results[j - 1].project_year < results[j].project_year
        /\ stoppedAt # 0 =>
             /\ pPc \in {"final", "returned"}
             /\ Len(attempted) = stoppedAt - 1
             /\ snapshot_date > now
             /\ pipeFaults = 0 => Len(results) = stoppedAt - 1
C9_Witness ==
    /\ Processing /\ pPc = "returned"
    /\ stoppedAt = 3 /\ Len(results) = 2 /\ ticks = 0

\* The scenario of C10: origin 2019-01-01, "now" 2024-06-01, five years.
Scenario ==
    /\ Processing /\ max_years = MAX_PROJECT_YEARS
    /\ first_commit_date # NoneT /\ FormatDate(first_commit_date) = <<2019, 1, 1>>
    /\ now = Now0
NewYears == <<<<2020, 1, 1>>, <<2021, 1, 1>>, <<2022, 1, 1>>, <<2023, 1, 1>>,
              <<2024, 1, 1>>>>
Every365Days == <<<<2020, 1, 1>>, <<2020, 12, 31>>, <<2021, 12, 31>>,
                  <<2022, 12, 31>>, <<2023, 12, 31>>>>
TargetsAre(dates) ==
    Scenario =>
        /\ Len(attempted) <= 5
        /\ stoppedAt = 0
        /\ \A i \in 1..Len(attempted) :
             attempted[i].year = i /\ FormatDate(attempted[i].target) = dates[i]
        /\ \A j \in 1..Len(results) :
             results[j].snapshot_date = dates[results[j].project_year]
        /\ (pPc = "returned" /\ pipeFaults = 0) =>
             /\ Len(results) = 5
             /\ \A j \in 1..5 : results[j].project_year = j

----------------------------------------------------------------------------
\* Properties of the git queries

History == Clone.commits
Earliest == CHOOSE k \in 1..Len(History) : \A j \in 1..Len(History) :
                History[k].date <= History[j].date
\* 23:59:59 of the target's calendar day
Boundary ==
    LET c == FormatDate(snapshot_date)
    IN  DateTime(c[1], c[2], c[3], 23) + 59 * 60 + 59
Qualifying == {k \in 1..Len(History) : History[k].date <= Boundary}

\* C11: for every non-empty history, get_first_commit_date returns the date
\* of the earliest commit of the repository (and it returns a date whenever
\* git ran and the history is not empty).
C11_OriginIsEarliestCommit ==
    (program = "git" /\ pPc = "resolve") =>
        /\ (first_commit_date # NoneT) =>
              (History # <<>> /\ first_commit_date = History[Earliest].date)
        /\ (History # <<>> /\ pipeFaults = 0) => first_commit_date # NoneT

----------------------------------------------------------------------------
\* Properties of the handling of failures

RecordedYears == {results[j].project_year : j \in 1..Len(results)}
TechnicalKeys(r) ==
    {k \in DOMAIN r : k \in {"total_design_smells", "total_impl_smells",
                              "total_code_smells", "design_Unutilized_Abstraction",
                              "design_Feature_Envy", "impl_Long_Method",
                              "impl_Magic_Number"}}
Skipped(e) == e.lookup = "none" \/ e.checkout = "failed"

\* C14: a project-year for which no commit was resolved, or whose snapshot
\* checkout failed, gets no record in the repository's results, and the loop
\* goes on with the next project-year.
C14_FailedSnapshotIsSkipped ==
    Processing =>
        \A i \in 1..Len(yearLog) :
            Skipped(yearLog[i]) =>
                /\ yearLog[i].year \notin RecordedYears
                /\ ~yearLog[i].recorded
                /\ (i = LastLog) => pPc # "raised"

RecordOf(n) == results[CHOOSE j \in 1..Len(results) : results[j].project_year = n]
SocialKeys == {"commit_count", "author_count", "bus_factor_number", "pr_count",
               "issue_count", "timezone_count", "days_active"}
YearDone(i) == i < LastLog \/ pPc \in {"year", "final", "returned"}

\* C15: a project-year whose Designite run timed out still gets its record,
\* unless the social step itself raises: the record has the social fields
\* (when social metrics are collected) and none of the technical fields,
\* and the loop goes on to the later project-years.
C15_TimeoutKeepsTheRecord ==
    Processing =>
        \A i \in 1..Len(yearLog) :
            LET e == yearLog[i] IN
            e.tool = "timeout" =>
                /\ (YearDone(i) /\ e.social # "raise") => e.recorded
                /\ e.recorded =>
                      /\ e.year \in RecordedYears
                      /\ TechnicalKeys(RecordOf(e.year)) = {}
                      /\ use_api => SocialKeys \subseteq DOMAIN RecordOf(e.year)
                /\ (i = LastLog /\ pPc = "raised") => e.social = "raise"
C15_Witness ==
    /\ Processing /\ use_api /\ Len(yearLog) = 2 /\ Len(results) = 2
    /\ yearLog[1].tool = "timeout" /\ yearLog[1].recorded
    /\ TechnicalKeys(results[1]) = {} /\ results[1].commit_count > 0
    /\ TechnicalKeys(results[2]) # {}

InOrder(v) == v = [j \in 1..Len(v) |-> j]
BatchDone == runPc = "done" /\ run_i = Len(repos) /\ Len(visited) = Len(repos)

\* C16: in a run of 08 the repositories are attempted in list order, one
\* after the other whatever happened in the ones before (clone failure, no
\* history, failed snapshot, exception of process_repo), and the run gets
\* to the final persist with every repository of the list attempted.
C16_BatchIsNeverAborted ==
    /\ [](program = "08" => /\ InOrder(visited)
                            /\ runPc # "aborted"
                            /\ Len(visited) \in {run_i, run_i + 1})
    /\ (program = "08") ~> BatchDone
C16_Witness ==
    /\ program = "08" /\ BatchDone
    /\ failed = 1 /\ visited = <<1, 2>> /\ all_results # <<>>

\* process_repo is past its first two steps
PastOrigin == program = "08" /\ pPc \notin {"idle", "clone", "origin"}
\* the clone could not be made, or it has no commit
Unusable == ~Clone.exists \/ Clone.commits = <<>>

C18_OneClonePerRepository ==
    /\ [][(program = "08" /\ pPc = "clone" /\ Clone.exists) =>
              clones' = clones /\ pPc' = "origin"]_vars
    /\ []((program = "08" /\ pPc \notin {"idle", "clone"} /\ Clone.exists) =>
              Clone.remote = <<Repo.owner, Repo.repo_slug>>)

----------------------------------------------------------------------------
\* Properties of persistence and of interruption

Ended == program = "08" /\ runPc \in {"done", "aborted"}
\* what is on disk: the final table, or else the last partial table
Persisted == IF saved_final.written THEN saved_final.table ELSE saved_partial.table
Records(t) == {t[j] : j \in 1..Len(t)}

\* C19: the result set accumulated so far is written as a partial table
\* after every 10th repository, and however the run ends the final table
\* holds the whole accumulated result set.
C19_ResultsArePersisted ==
    /\ [][(program = "08" /\ run_i' = run_i + 1 /\ run_i' % SAVE_EVERY = 0) =>
              saved_partial'.table = all_results']_vars
    /\ [](Ended => saved_final.table = all_results)

\* a snapshot is being processed: its project-year has been entered and its
\* record is not appended yet
InFlight == yearLog # <<>> /\ yearLog[LastLog].year = year_n /\ ~yearLog[LastLog].recorded

\* C20: when the run ends on an interrupt that arrived while a snapshot was
\* being processed, every record made before that snapshot is on disk and
\* the snapshot's checkout has been followed by an attempt to restore the
\* default branch.
C20_InterruptIsGraceful ==
    (program = "08" /\ runPc = "aborted" /\ InFlight) =>
        /\ Records(all_results) \cup Records(results) \subseteq Records(Persisted)
        /\ restoreDue # "pending"

----------------------------------------------------------------------------
\* Properties of the options and of the tables

\* C21: with --start-from k the first k entries are left alone: run of 08
\* attempts only the positions after the k-th, and 08b leaves the first k
\* rows of its input without technical fields.
C21_StartIndexSkips ==
    /\ program = "08" => \A j \in 1..Len(visited) : visited[j] > start_from
    /\ program = "08b" =>
           \A i \in 1..Min(start_from, Len(rows)) : TechnicalKeys(rows[i]) = {}

KeyOf(r) == <<r.repo_name, r.project_year>>
DistinctKeys(t) == \A i, j \in 1..Len(t) : KeyOf(t[i]) = KeyOf(t[j]) => i = j

\* C22: no table written by 08, partial or final, has two rows with the
\* same (repo_name, project_year).
C22_OneRowPerRepositoryYear ==
    program = "08" => DistinctKeys(saved_partial.table) /\ DistinctKeys(saved_final.table)

Place(k, seq) == CHOOSE i \in 1..Len(seq) : seq[i] = k
\* the group of a column: identity, social, indicator, technical
Group(k) ==
    CASE k \in Elems(META_COLS) -> 1
      [] k \in Elems(SOCIAL_COLS) -> 2
      [] k \in Elems(INDICATOR_COLS) -> 3
      [] OTHER -> 4
\* the order two columns of one group must have
Before(a, b) ==
    CASE Group(a) = 1 -> Place(a, META_COLS) < Place(b, META_COLS)
      [] Group(a) = 2 -> Place(a, SOCIAL_COLS) < Place(b, SOCIAL_COLS)
      [] Group(a) = 3 -> Place(a, INDICATOR_COLS) < Place(b, INDICATOR_COLS)
      [] OTHER -> Place(a, ALPHABETICAL) < Place(b, ALPHABETICAL)
WellFormed(t) ==
    /\ t.table = all_results
    /\ Elems(t.columns) = AllKeys(all_results)
    /\ \A i, j \in 1..Len(t.columns) :
           i < j => /\ Group(t.columns[i]) <= Group(t.columns[j])
                    /\ Group(t.columns[i]) = Group(t.columns[j]) =>
                           Before(t.columns[i], t.columns[j])

Frame(r) == [k \in DOMAIN r \ TechnicalKeys(r) |-> r[k]]
Frames(t) == [i \in 1..Len(t) |-> Frame(t[i])]

\* C24: 08b changes nothing but technical fields: apart from them its rows
\* stay, one by one and in order, what they were in the input, and so are
\* the rows of every table it writes.
C24_OnlyTechnicalFieldsChange ==
    /\ [][program = "08b" => Frames(rows') = Frames(rows)]_vars
    /\ [](program = "08b" =>
              /\ saved_partial.written => Frames(saved_partial.table) = Frames(rows)
              /\ saved_final.written => Frames(saved_final.table) = Frames(rows))
C24_Witness ==
    /\ program = "08b" /\ runPc = "done" /\ saved_final.written
    /\ failed = 1 /\ processed = 1
    /\ TechnicalKeys(saved_final.table[1]) # {}
    /\ Frame(saved_final.table[1]) = InputRow("a", 1, 2)
    /\ saved_final.table[2] = InputRow("b", 1, 3)

IdentityKeys == {"repo_name", "owner", "repo_slug", "project_year", "snapshot_date",
                 "first_commit_date", "snapshot_commit"}
DryRecord(r) == DOMAIN r = IdentityKeys \cup {"commit_count"}

\* C25: in a dry run of 08 the client counts no response, no project-year
\* has a snapshot checkout or a run of the tool, the clone's HEAD never
\* leaves the branch it was cloned on, and every record, in memory or
\* written, has the identity fields and commit_count and nothing else.
C25_DryRunIsLocal ==
    (program = "08" /\ dry_run) =>
        /\ request_count = 0
        /\ \A i \in 1..Len(yearLog) :
               yearLog[i].checkout = "-" /\ yearLog[i].tool = "-"
        /\ restoreDue = "clean"
        /\ \A n \in DOMAIN clones :
               clones[n].exists => clones[n].head.at = Len(clones[n].commits)
        /\ \A t \in {results, all_results, saved_partial.table, saved_final.table} :
               \A j \in 1..Len(t) : DryRecord(t[j])
C25_Witness ==
    /\ program = "08" /\ dry_run /\ use_api /\ use_designite
    /\ runPc = "done" /\ saved_final.written
    /\ Len(saved_final.table) = 3
    /\ saved_final.table[1].commit_count = 1

----------------------------------------------------------------------------
\* Properties of the restore, of the summary and of the totals

\* the candidate can be checked out on the clone
Resolves(cl, c) == c = "HEAD" \/ c \in DOMAIN cl.branches
\* the restore function of the running script, applied to a clone
RestoreOf(cl) ==
    TryBranches(cl, IF program = "08b" THEN Candidates08b ELSE Candidates08)

\* C26: on every clone the scripts have, restoring the default branch
\* reports failure only when none of "main", "master" and the symbolic
\* default can be checked out, and when it reports success the working
\* tree is on the default branch.
C26_RestoreReportsTheTruth ==
    program \in {"08", "08b"} =>
        \A n \in DOMAIN clones :
            clones[n].exists =>
                /\ RestoreOf(clones[n]).ok => OnDefaultBranch(RestoreOf(clones[n]).clone)
                /\ ~RestoreOf(clones[n]).ok =>
                       \A c \in {"main", "master", "HEAD"} : ~Resolves(clones[n], c)

\* process_repo has ended on a repository that gave nothing: its clone
\* could not be made, it has no commit, or an exception came out
EndedFailed == pPc = "raised" \/ (pPc = "returned" /\ Unusable)

\* C27: run's failure counter goes up by one for every repository that
\* ended Failed and for no other, it never exceeds the number of
\* repositories, and at the end of the run the final table has as many
\* rows as the summary's snapshot total, len(all_results).
C27_SummaryIsConsistent ==
    /\ [][(program = "08" /\ run_i' = run_i + 1) =>
              failed' = failed + (IF EndedFailed THEN 1 ELSE 0)]_vars
    /\ []((program = "08" /\ runPc = "done") =>
              /\ failed <= Len(repos)
              /\ Len(saved_final.table) = Len(all_results))

\* the clone with its default branch freshly checked out
Restored(cl) == [cl EXCEPT !.head = [ref |-> cl.default, at |-> Len(cl.commits)]]
\* the step is process_repo's commit lookup for one more project-year
Lookup == program = "08" /\ Len(yearLog') = Len(yearLog) + 1

Val(r, k) == IF k \in DOMAIN r THEN r[k] ELSE 0
TotalsAgree(r) ==
    /\ r.total_design_smells =
           Val(r, "design_Unutilized_Abstraction") + Val(r, "design_Feature_Envy")
    /\ r.total_impl_smells = Val(r, "impl_Long_Method") + Val(r, "impl_Magic_Number")
    /\ r.total_code_smells = r.total_design_smells + r.total_impl_smells

\* C29: in every table 08 or 08b has written, a row with technical fields
\* has totals that are the sums of its per-type counts.
C29_TotalsAreSums ==
    program \in {"08", "08b"} =>
        \A t \in {saved_partial.table, saved_final.table} :
            \A j \in 1..Len(t) : TechnicalKeys(t[j]) # {} => TotalsAgree(t[j])

----------------------------------------------------------------------------
\* Properties of the batch runner

\* the positions of the list (1-based) the loop goes through
Covered == (StartIdx(repos, start_from) + 1)..Len(repos)
Holding(list, repo) == Cardinality({j \in 1..Len(list) : list[j].repo = repo})
Executions(idx) == Cardinality({j \in 1..Len(visited) : visited[j] = idx})
BatchOver == program = "batch" /\ runPc = "done"
\* every entry at a covered position is in the three lists once per position
InOneList ==
    \A i \in Covered :
        Holding(results.success, repos[i]) + Holding(results.failed, repos[i])
            + Holding(results.skipped, repos[i])
          = Cardinality({k \in Covered : repos[k] = repos[i]})
ExecutedWithinRetries == \A i \in Covered : Executions(i - 1) <= max_retries
FoundDone == AtRepo /\ BatchRepoUrl # NoUrl /\ repo_already_processed(BatchRepoUrl, clones)
ReportIsComplete == Covered # {} => saved_final.written /\ saved_final.table = results

\* C30: in run_batch every repository from the start position on ends in
\* exactly one of the lists success, failed, skipped; it is executed at most
\* max-retries times, and not at all when its results file is there when the
\* loop reaches it; the report on disk at the end of the batch holds the
\* outcome of every one of them, the last included.
C30_BatchAccountsForEveryRepository ==
    /\ [](BatchOver => InOneList)
    /\ [](program = "batch" => ExecutedWithinRetries)
    /\ [][FoundDone => (visited' = visited /\ run_i' = run_i + 1)]_vars
    /\ [](BatchOver => ReportIsComplete)

====
